---- MODULE Spec2Model ----
(***************************************************************************)
(* Token database of the chain library: the two column families of the     *)
(* engine, the savepoint stack with its runtime and persistent groups, the *)
(* persistence stream, the savepoint session and the read cache; and the  *)
(* ABI serializer: its type environment, validate and the two conversions. *)
(* Source: libraries/chain/token_database.cpp,                             *)
(*         libraries/chain/include/evt/chain/token_database_cache.hpp and  *)
(*         libraries/chain/contracts/abi_serializer.cpp                    *)
(***************************************************************************)
EXTENDS Integers, Sequences, FiniteSets, TLC

(***************************************************************************)
(* Bounds of the model.                                                    *)
(***************************************************************************)
MaxSavepoints == 2
MaxSeq == 2
MaxSnapshots == 3
MaxPuts == 2
MaxSessions == 2
MaxPersistPuts == 1

(***************************************************************************)
(* Enumerations.                                                           *)
(***************************************************************************)
kRuntime == 0
kPersist == 1

kTokenKey == 0
kTokenFullKey == 1
kAssetKey == 2
kTokenKeys == 3

tt_asset == 0
tt_domain == 1
tt_token == 2

op_add == 0
op_update == 1
op_put == 2
\* the fourth op of the interface description; no case of the code names it
op_delete == 3

action_key_prefixes ==
    <<".asset", ".domain", ".token", ".group", ".suspend", ".lock",
      ".fungible", ".prodvote", ".evtlink">>

(***************************************************************************)
(* Inputs: names, domains, values, one address and one symbol.             *)
(***************************************************************************)
Names == {"a", "b"}
Domains == {"d1"}
Values == {"", "x"}
Addrs == {"addr1"}
Syms == {"S1"}
\* the holdings read_assets_range is run over: two symbols, and addresses of
\* which the first two agree on all bytes but the last ones
RangeSyms == {"S1", "S2"}
RangeAddrs == {"addr1", "addr2", "bddr1"}
RecordTypes == {tt_domain, tt_token}
Ops == {op_add, op_update, op_put}

(***************************************************************************)
(* Key codec.  A token key is the prefix followed by the key, an asset key *)
(* the symbol followed by the address.  EmptyKey is the empty byte string. *)
(***************************************************************************)
db_token_key(prefix, key) == <<prefix, key>>
db_asset_key(addr, sym) == <<sym, addr>>
EmptyKey == <<>>

PrefixOf(type) == action_key_prefixes[type + 1]

TokenPrefixes == {PrefixOf(tt_domain), PrefixOf(tt_token)} \cup Domains
KeyUniverse ==
    {db_token_key(p, k) : p \in TokenPrefixes, k \in Names}
        \cup {db_asset_key(ad, s) : ad \in Addrs, s \in Syms}
        \cup {db_asset_key(ad, s) : ad \in RangeAddrs, s \in RangeSyms}
        \cup {EmptyKey}

(***************************************************************************)
(* Engine adapter: two column families, Get / Put / Delete, write batches. *)
(* A snapshot is the contents at the moment it was taken.                  *)
(***************************************************************************)
TokensCF == "Tokens"
AssetsCF == "Assets"
nullptr == "nullptr"
NotFound == "NotFound"

EmptyDb == [cf \in {TokensCF, AssetsCF} |-> [k \in KeyUniverse |-> NotFound]]

Get(db, cf, key) == db[cf][key]
Put(db, cf, key, value) == [db EXCEPT ![cf][key] = value]
Delete(db, cf, key) == [db EXCEPT ![cf][key] = NotFound]

BatchPut(cf, key, value) == [del |-> FALSE, cf |-> cf, key |-> key, value |-> value]
BatchDelete(cf, key) == [del |-> TRUE, cf |-> cf, key |-> key, value |-> NotFound]

\* WriteBatch::Put / Delete with a null column family handle address the
\* default column family.
BatchCF(handle) == IF handle = nullptr THEN TokensCF ELSE handle

RECURSIVE Write(_, _)
Write(db, batch) ==
    IF batch = <<>> THEN db
    ELSE LET b == Head(batch)
             d == IF b.del THEN Delete(db, b.cf, b.key)
                           ELSE Put(db, b.cf, b.key, b.value)
         IN  Write(d, Tail(batch))

(***************************************************************************)
(* rt_action: the token type in one byte, op and data type packed in the   *)
(* exts byte, the payload pointer in the low 48 bits.                      *)
(***************************************************************************)
RECURSIVE BitOr(_, _)
BitOr(a, b) ==
    IF a = 0 THEN b
    ELSE IF b = 0 THEN a
    ELSE (IF a % 2 = 1 \/ b % 2 = 1 THEN 1 ELSE 0) + 2 * BitOr(a \div 2, b \div 2)

RECURSIVE BitAnd(_, _)
BitAnd(a, b) ==
    IF a = 0 \/ b = 0 THEN 0
    ELSE (IF a % 2 = 1 /\ b % 2 = 1 THEN 1 ELSE 0) + 2 * BitAnd(a \div 2, b \div 2)

\* the word of the union as its three parts: byte 6 (type), byte 7 (exts)
\* and the low 48 bits (data).  SETPOINTER keeps the two high bytes and
\* stores a 48-bit pointer in the low bits; GETPOINTER masks the high bytes.
SETPOINTER(p, x) == [p EXCEPT !.data = x]
GETPOINTER(p) == p.data

rt_action(token_type, op, data_type, data) ==
    SETPOINTER([type |-> token_type % 256,
                exts |-> BitOr(op % 256, (data_type * 16) % 256) % 256,
                data |-> nullptr],
               data)

get_token_type(act) == act.type
get_action_op(act) == BitAnd(act.exts, 255)
get_data_type(act) == act.exts \div 16

\* payloads
rt_token_key(key) == [key |-> key]
rt_token_fullkey(prefix, key) == [prefix |-> prefix, key |-> key]
rt_token_keys(prefix, keys) == [prefix |-> prefix, keys |-> keys]
rt_asset_key(key) == [key |-> key]
\* a payload that has been passed to free()
Freed == [freed |-> TRUE]

get_sp_key(act) ==
    IF get_data_type(act) = kTokenKey
    THEN db_token_key(PrefixOf(act.type), act.data.key)
    ELSE IF get_data_type(act) = kTokenFullKey
    THEN db_token_key(act.data.prefix, act.data.key)
    ELSE act.data.key

(***************************************************************************)
(* Results of operations: err is the exception an operation leaves with,   *)
(* fault a termination of the process (failed assert of a debug build,     *)
(* null handle dereference, use of freed memory).                          *)
(***************************************************************************)
OK == "ok"
seq_not_valid == "token_database_seq_not_valid"
no_savepoint == "token_database_no_savepoint"
squash_exception == "token_database_squash_exception"
dirty_flag_exception == "token_database_dirty_flag_exception"
unrecoverable_exception == "unrecoverable_exception"
assert_exception == "assert_exception"

NoFault == "none"
Abort == "abort"
Segv == "segv"
UseAfterFree == "use_after_free"
TypeConfusion == "record_on_persistent_group"

(***************************************************************************)
(* rollback_rt_group: forward scan over the recorded actions, one write    *)
(* batch, the pre-images read from the snapshot of the group.  The         *)
(* accumulator carries the batch, the key set, the exception thrown (if    *)
(* any), a fault, whether an assert() failed, and the number of payloads   *)
(* already freed.                                                          *)
(***************************************************************************)
ScanStart ==
    [batch |-> <<>>, key_set |-> {}, err |-> OK, fault |-> NoFault,
     asserts |-> FALSE, freed |-> 0, out |-> <<>>]

Stopped(acc) == acc.err # OK \/ acc.fault # NoFault

rollback_rt_fn(acc, key, type, op, snap, assets_handle, tokens_handle) ==
    IF Stopped(acc) THEN acc
    ELSE IF op = op_add
    THEN [acc EXCEPT !.asserts = @ \/ (key \in acc.key_set),
                     !.batch = Append(@, BatchDelete(TokensCF, key)),
                     !.key_set = @ \cup {key}]
    ELSE IF op = op_update
    THEN IF key \in acc.key_set THEN acc
         ELSE IF Get(snap, TokensCF, key) = NotFound
         THEN [acc EXCEPT !.err = unrecoverable_exception]
         ELSE [acc EXCEPT !.batch = Append(@, BatchPut(TokensCF, key, Get(snap, TokensCF, key))),
                          !.key_set = @ \cup {key}]
    ELSE IF op = op_put
    THEN IF key \in acc.key_set THEN acc
         ELSE LET handle == IF type = tt_asset THEN assets_handle ELSE tokens_handle
              IN  IF handle = nullptr
                  THEN [acc EXCEPT !.fault = Segv]
                  ELSE IF Get(snap, handle, key) = NotFound
                  THEN [acc EXCEPT !.batch = Append(@, BatchDelete(handle, key)),
                                   !.key_set = @ \cup {key}]
                  ELSE [acc EXCEPT !.batch = Append(@, BatchPut(handle, key, Get(snap, handle, key))),
                                   !.key_set = @ \cup {key}]
    ELSE [acc EXCEPT !.err = assert_exception]

RECURSIVE rollback_rt_keys(_, _, _, _, _, _, _, _)
rollback_rt_keys(acc, prefix, keys, type, op, snap, assets_handle, tokens_handle) ==
    IF keys = <<>> THEN acc
    ELSE rollback_rt_keys(
            rollback_rt_fn(acc, db_token_key(prefix, Head(keys)), type, op,
                           snap, assets_handle, tokens_handle),
            prefix, Tail(keys), type, op, snap, assets_handle, tokens_handle)

rollback_rt_action(acc, act, snap, assets_handle, tokens_handle) ==
    LET op == get_action_op(act)
        data_type == get_data_type(act)
        type == get_token_type(act)
        done ==
            IF act.data = Freed
            THEN [acc EXCEPT !.fault = UseAfterFree]
            ELSE IF data_type \in {kTokenKey, kTokenFullKey, kAssetKey}
            THEN rollback_rt_fn(acc, get_sp_key(act), type, op, snap,
                                assets_handle, tokens_handle)
            ELSE IF data_type = kTokenKeys
            THEN rollback_rt_keys(acc, act.data.prefix, act.data.keys, type, op,
                                  snap, assets_handle, tokens_handle)
            ELSE acc
    IN  IF Stopped(done) THEN done ELSE [done EXCEPT !.freed = @ + 1]

RECURSIVE rollback_rt_scan(_, _, _, _, _)
rollback_rt_scan(acc, actions, snap, assets_handle, tokens_handle) ==
    IF actions = <<>> \/ Stopped(acc) THEN acc
    ELSE rollback_rt_scan(
            rollback_rt_action(acc, Head(actions), snap, assets_handle, tokens_handle),
            Tail(actions), snap, assets_handle, tokens_handle)

rollback_rt_group(rt, assets_handle, tokens_handle) ==
    rollback_rt_scan(ScanStart, rt.actions, rt.rb_snapshot, assets_handle, tokens_handle)

\* the actions of a group after a scan that freed the first n payloads
FreePayloads(actions, n) ==
    [i \in 1..Len(actions) |-> IF i <= n THEN [actions[i] EXCEPT !.data = Freed]
                                         ELSE actions[i]]

(***************************************************************************)
(* rollback_pd_group: the same scan over persistent actions, whose         *)
(* pre-images are stored in the actions.                                   *)
(***************************************************************************)
rollback_pd_action(acc, act, assets_handle, tokens_handle) ==
    IF act.op = op_add
    THEN [acc EXCEPT !.asserts = @ \/ (act.key \in acc.key_set) \/ (act.value # ""),
                     !.batch = Append(@, BatchDelete(TokensCF, act.key)),
                     !.key_set = @ \cup {act.key}]
    ELSE IF act.op = op_update
    THEN IF act.key \in acc.key_set THEN acc
         ELSE [acc EXCEPT !.asserts = @ \/ (act.value = ""),
                          !.batch = Append(@, BatchPut(TokensCF, act.key, act.value)),
                          !.key_set = @ \cup {act.key}]
    ELSE IF act.op = op_put
    THEN IF act.key \in acc.key_set THEN acc
         ELSE LET handle == IF act.type = tt_asset THEN assets_handle ELSE tokens_handle
              IN  IF act.value = ""
                  THEN [acc EXCEPT !.batch = Append(@, BatchDelete(BatchCF(handle), act.key)),
                                   !.key_set = @ \cup {act.key}]
                  ELSE [acc EXCEPT !.batch = Append(@, BatchPut(BatchCF(handle), act.key, act.value)),
                                   !.key_set = @ \cup {act.key}]
    ELSE [acc EXCEPT !.asserts = TRUE]

RECURSIVE rollback_pd_scan(_, _, _, _)
rollback_pd_scan(acc, actions, assets_handle, tokens_handle) ==
    IF actions = <<>> THEN acc
    ELSE rollback_pd_scan(rollback_pd_action(acc, Head(actions), assets_handle, tokens_handle),
                          Tail(actions), assets_handle, tokens_handle)

rollback_pd_group(pd, assets_handle, tokens_handle) ==
    rollback_pd_scan(ScanStart, pd.actions, assets_handle, tokens_handle)

(***************************************************************************)
(* persist_savepoints(std::ostream&): every runtime action becomes a       *)
(* persistent action whose value is read from the snapshot of its group.   *)
(* The lambda receives the key of the persistent action by reference and   *)
(* moves it into the key set, which leaves the moved-from string empty.    *)
(***************************************************************************)
MovedFrom(key) == EmptyKey

pd_action(op, type, key, value) ==
    [op |-> op % 65536, type |-> type % 65536, key |-> key, value |-> value]

persist_rt_fn(acc, key, type, op, snap, assets_handle, tokens_handle) ==
    IF Stopped(acc) THEN acc
    ELSE IF op = op_add
    THEN [acc EXCEPT !.asserts = @ \/ (key \in acc.key_set),
                     !.key_set = @ \cup {key},
                     !.out = Append(@, pd_action(op, type, MovedFrom(key), ""))]
    ELSE IF op = op_update
    THEN IF key \in acc.key_set
         THEN [acc EXCEPT !.out = Append(@, pd_action(op, type, key, ""))]
         ELSE IF Get(snap, TokensCF, key) = NotFound
         THEN [acc EXCEPT !.err = unrecoverable_exception]
         ELSE [acc EXCEPT !.key_set = @ \cup {key},
                          !.out = Append(@, pd_action(op, type, MovedFrom(key),
                                                      Get(snap, TokensCF, key)))]
    ELSE IF op = op_put
    THEN IF key \in acc.key_set
         THEN [acc EXCEPT !.out = Append(@, pd_action(op, type, key, ""))]
         ELSE LET handle == IF type = tt_asset THEN assets_handle ELSE tokens_handle
              IN  IF handle = nullptr
                  THEN [acc EXCEPT !.fault = Segv]
                  ELSE [acc EXCEPT
                          !.key_set = @ \cup {key},
                          !.out = Append(@, pd_action(op, type, MovedFrom(key),
                                      IF Get(snap, handle, key) = NotFound
                                      THEN "" ELSE Get(snap, handle, key)))]
    ELSE [acc EXCEPT !.out = Append(@, pd_action(op, type, key, ""))]

RECURSIVE persist_rt_keys(_, _, _, _, _, _, _, _)
persist_rt_keys(acc, prefix, keys, type, op, snap, assets_handle, tokens_handle) ==
    IF keys = <<>> THEN acc
    ELSE persist_rt_keys(
            persist_rt_fn(acc, db_token_key(prefix, Head(keys)), type, op,
                          snap, assets_handle, tokens_handle),
            prefix, Tail(keys), type, op, snap, assets_handle, tokens_handle)

persist_rt_action(acc, act, snap, assets_handle, tokens_handle) ==
    LET op == get_action_op(act)
        data_type == get_data_type(act)
        type == get_token_type(act)
    IN  IF Stopped(acc) THEN acc
        ELSE IF act.data = Freed
        THEN [acc EXCEPT !.fault = UseAfterFree]
        ELSE IF data_type \in {kTokenKey, kTokenFullKey, kAssetKey}
        THEN persist_rt_fn(acc, get_sp_key(act), type, op, snap,
                           assets_handle, tokens_handle)
        ELSE IF data_type = kTokenKeys
        THEN persist_rt_keys(acc, act.data.prefix, act.data.keys, type, op,
                             snap, assets_handle, tokens_handle)
        ELSE acc

RECURSIVE persist_rt_scan(_, _, _, _, _)
persist_rt_scan(acc, actions, snap, assets_handle, tokens_handle) ==
    IF actions = <<>> THEN acc
    ELSE persist_rt_scan(
            persist_rt_action(acc, Head(actions), snap, assets_handle, tokens_handle),
            Tail(actions), snap, assets_handle, tokens_handle)

\* the pd_group written for one savepoint; the accumulator of the scan
persist_group(sp, assets_handle, tokens_handle) ==
    IF sp.type = kPersist
    THEN [ScanStart EXCEPT !.out = sp.group.actions]
    ELSE persist_rt_scan(ScanStart, sp.group.actions, sp.group.rb_snapshot,
                         assets_handle, tokens_handle)

RECURSIVE persist_groups(_, _, _, _)
persist_groups(acc, sps, assets_handle, tokens_handle) ==
    IF sps = <<>> \/ Stopped(acc) THEN acc
    ELSE LET g == persist_group(Head(sps), assets_handle, tokens_handle)
         IN  persist_groups(
                [acc EXCEPT !.err = g.err, !.fault = g.fault,
                            !.asserts = @ \/ g.asserts,
                            !.out = IF Stopped(g) THEN @
                                    ELSE Append(@, [seq |-> Head(sps).seq,
                                                    actions |-> g.out])],
                Tail(sps), assets_handle, tokens_handle)

\* the content of the stream: the header and the list of groups.  A persist
\* that does not reach its last write leaves the header with dirty_flag 1.
pd_header(dirty_flag) == [dirty_flag |-> dirty_flag]
StreamOf(dirty_flag, pds) == [h |-> pd_header(dirty_flag), pds |-> pds]
NoStream == [h |-> pd_header(-1), pds |-> <<>>]
\* a file that was created and holds no byte
EmptyStream == [h |-> pd_header(-2), pds |-> <<>>]

\* io_ok: the writes to the stream succeed
stream_failure == "ios_base::failure"

persist_savepoints(sps, assets_handle, tokens_handle, io_ok) ==
    LET r == persist_groups(ScanStart, sps, assets_handle, tokens_handle)
    IN  IF Stopped(r)
        THEN [err |-> r.err, fault |-> r.fault, asserts |-> r.asserts,
              os |-> StreamOf(1, <<>>)]
        ELSE IF ~io_ok
        THEN [err |-> stream_failure, fault |-> NoFault, asserts |-> r.asserts,
              os |-> StreamOf(1, <<>>)]
        ELSE [err |-> OK, fault |-> NoFault, asserts |-> r.asserts,
              os |-> StreamOf(0, r.out)]

(***************************************************************************)
(* load_savepoints(std::istream&): the persistent savepoints appended to   *)
(* the stack.                                                              *)
(***************************************************************************)
savepoint(seq, type, group) == [seq |-> seq, type |-> type, group |-> group]
rt_group(snapshot) == [rb_snapshot |-> snapshot, actions |-> <<>>]

\* mutant: the groups are pushed in the reverse of their order in the stream
LoadedSavepoints_reversed(pds) ==
    [i \in 1..Len(pds) |-> savepoint(pds[Len(pds) + 1 - i].seq, kPersist,
                                     pds[Len(pds) + 1 - i])]

LoadedSavepoints(pds) ==
    [i \in 1..Len(pds) |-> savepoint(pds[i].seq, kPersist, pds[i])]

\* mutant: the dirty flag of the header is not looked at
load_savepoints_unchecked(sps, is) ==
    [err |-> OK, savepoints |-> sps \o LoadedSavepoints(is.pds)]

load_savepoints(sps, is) ==
    IF is = EmptyStream
    THEN [err |-> stream_failure, savepoints |-> sps]
    ELSE IF is.h.dirty_flag # 0
    THEN [err |-> dirty_flag_exception, savepoints |-> sps]
    ELSE [err |-> OK, savepoints |-> sps \o LoadedSavepoints(is.pds)]

(***************************************************************************)
(* State of the store.                                                     *)
(***************************************************************************)
VARIABLES
    db_,             \* contents of the two column families of the engine
    opened,          \* db_ != nullptr
    dir_exists,      \* the database directory exists
    tokens_handle_,  \* handle of the token column family, or nullptr
    savepoints_,     \* the deque of savepoints, front first
    live_snapshots,  \* engine snapshots acquired and not yet released
    stream,          \* the stream the caller persists to and loads from
    file,            \* the persistence file of the database directory
    puts,            \* number of put calls made so far
    call,            \* the operation invoked last, with its arguments
    err,             \* the exception the last operation left with
    fault,           \* termination of the process
    sessions,        \* the live session objects, outermost first
    cache_,          \* entries of the token_database_cache over the store
    typedefs,        \* abi_serializer: new type name -> type
    structs,         \* abi_serializer: struct name -> struct_def
    actions_,        \* abi_serializer: action name -> type
    ser              \* the call made last on the abi_serializer, with its result

vars == <<db_, opened, dir_exists, tokens_handle_, savepoints_, live_snapshots,
          stream, file, puts, call, err, fault, sessions, cache_,
          typedefs, structs, actions_, ser>>

\* the objects that hold a reference to the store
clients == <<sessions, cache_>>

\* the abi_serializer, which the store does not refer to
serializer == <<typedefs, structs, actions_, ser>>

\* what a call on the store alone leaves as it is
idle == <<clients, serializer>>

assets_handle_ == AssetsCF

\* token_database_cache: the key of an entry packs (type, domain, key)
nullopt == "nullopt"
NoEntry == "NoEntry"
cache_key(type, domain, key) == <<type, domain, key>>
CacheKeys == {cache_key(type, domain, key) :
                 type \in RecordTypes, domain \in Domains \cup {nullopt}, key \in Names}
EmptyCache == [k \in CacheKeys |-> NoEntry]

Back(sps) == sps[Len(sps)]
PopBack(sps) == SubSeq(sps, 1, Len(sps) - 1)
Running == opened /\ fault = NoFault

Init ==
    /\ db_ = EmptyDb
    /\ opened = FALSE
    /\ dir_exists = FALSE
    /\ tokens_handle_ = nullptr
    /\ savepoints_ = <<>>
    /\ live_snapshots = 0
    /\ stream = NoStream
    /\ file = NoStream
    /\ puts = 0
    /\ call = [op |-> "token_database"]
    /\ err = OK
    /\ fault = NoFault
    /\ sessions = <<>>
    /\ cache_ = EmptyCache
    /\ typedefs = <<>>
    /\ structs = <<>>
    /\ actions_ = <<>>
    /\ ser = [op |-> "abi_serializer", err |-> OK, fault |-> NoFault]

(***************************************************************************)
(* record: appends to the group of the top savepoint, which it takes to be *)
(* a runtime group.                                                        *)
(***************************************************************************)
should_record(sps) == sps # <<>>

record(sps, action_type, op, data_type, data) ==
    [sps EXCEPT ![Len(sps)].group.actions =
                    Append(@, rt_action(action_type, op, data_type, data))]

\* the caller's use of the ops: add on absent keys, update on present keys
LegalOp(op, cf, keys) ==
    /\ op = op_add => \A k \in keys : Get(db_, cf, k) = NotFound
    /\ op = op_update => \A k \in keys : Get(db_, cf, k) # NotFound

\* bound on the put calls of a run that reach the engine
RoomToPut(written) ==
    /\ puts < MaxPuts
    /\ puts' = IF written > 0 THEN puts + 1 ELSE puts

\* mutant: a put on an empty stack opens a savepoint of its own
Record_unguarded(type, op, data_type, data) ==
    /\ savepoints_' =
          IF savepoints_ = <<>>
          THEN record(<<savepoint(0, kRuntime, rt_group(db_))>>, type, op, data_type, data)
          ELSE record(savepoints_, type, op, data_type, data)
    /\ UNCHANGED fault

\* the part of a put that follows the engine write
Record(type, op, data_type, data) ==
    IF ~should_record(savepoints_)
    THEN UNCHANGED <<savepoints_, fault>>
    ELSE IF Back(savepoints_).type # kRuntime
    THEN fault' = TypeConfusion /\ UNCHANGED savepoints_
    ELSE /\ savepoints_' = record(savepoints_, type, op, data_type, data)
         /\ UNCHANGED fault

\* the assert on the prefix of a record that is not a token ends the process
\* in a build that keeps asserts and does nothing in one that does not
put_token(type, op, prefix, key, data, io_ok) ==
    /\ Running
    /\ RoomToPut(IF io_ok THEN 1 ELSE 0)
    /\ LegalOp(op, TokensCF, {db_token_key(prefix, key)})
    /\ call' = [op |-> "put_token", type |-> type, action_op |-> op,
                cf |-> TokensCF, keys |-> <<db_token_key(prefix, key)>>,
                data |-> <<data>>, written |-> IF io_ok THEN 1 ELSE 0]
    /\ IF ~io_ok
       THEN /\ err' = unrecoverable_exception
            /\ UNCHANGED <<db_, savepoints_, fault>>
       ELSE /\ db_' = Put(db_, TokensCF, db_token_key(prefix, key), data)
            /\ err' = OK
            /\ IF type # tt_token
               THEN \/ /\ should_record(savepoints_)
                       /\ prefix # PrefixOf(type)
                       /\ fault' = Abort
                       /\ UNCHANGED savepoints_
                    \/ Record(type, op, kTokenKey, rt_token_key(key))
               ELSE Record(type, op, kTokenFullKey, rt_token_fullkey(prefix, key))
    /\ UNCHANGED <<opened, dir_exists, tokens_handle_, live_snapshots, stream, file>>

\* the engine contents after the first n keys of a put_tokens were written
RECURSIVE PutMany(_, _, _, _, _)
PutMany(db, prefix, keys, data, n) ==
    IF n = 0 THEN db
    ELSE Put(PutMany(db, prefix, keys, data, n - 1),
             TokensCF, db_token_key(prefix, keys[n]), data[n])

\* fail_at = 0: every write succeeds; fail_at = i: the i-th write fails
put_tokens(type, op, prefix, keys, data, fail_at) ==
    /\ Running
    /\ RoomToPut(IF fail_at = 0 THEN Len(keys) ELSE fail_at - 1)
    /\ LegalOp(op, TokensCF, {db_token_key(prefix, keys[i]) : i \in 1..Len(keys)})
    /\ call' = [op |-> "put_tokens", type |-> type, action_op |-> op,
                cf |-> TokensCF,
                keys |-> [i \in 1..Len(keys) |-> db_token_key(prefix, keys[i])],
                data |-> data,
                written |-> IF fail_at = 0 THEN Len(keys) ELSE fail_at - 1]
    /\ IF fail_at # 0
       THEN /\ db_' = PutMany(db_, prefix, keys, data, fail_at - 1)
            /\ err' = unrecoverable_exception
            /\ UNCHANGED <<savepoints_, fault>>
       ELSE /\ db_' = PutMany(db_, prefix, keys, data, Len(keys))
            /\ err' = OK
            /\ Record(type, op, kTokenKeys, rt_token_keys(prefix, keys))
    /\ UNCHANGED <<opened, dir_exists, tokens_handle_, live_snapshots, stream, file>>

put_asset(addr, sym, data, io_ok) ==
    /\ Running
    /\ RoomToPut(IF io_ok THEN 1 ELSE 0)
    /\ call' = [op |-> "put_asset", type |-> tt_asset, action_op |-> op_put,
                cf |-> AssetsCF, keys |-> <<db_asset_key(addr, sym)>>,
                data |-> <<data>>, written |-> IF io_ok THEN 1 ELSE 0]
    /\ IF ~io_ok
       THEN /\ err' = unrecoverable_exception
            /\ UNCHANGED <<db_, savepoints_, fault>>
       ELSE /\ db_' = Put(db_, assets_handle_, db_asset_key(addr, sym), data)
            /\ err' = OK
            /\ Record(tt_asset, op_put, kAssetKey, rt_asset_key(db_asset_key(addr, sym)))
    /\ UNCHANGED <<opened, dir_exists, tokens_handle_, live_snapshots, stream, file>>

(***************************************************************************)
(* exists_token and read_token                                             *)
(***************************************************************************)
token_database_key_not_found == "token_database_key_not_found"

exists_token(db, prefix, key) == Get(db, TokensCF, db_token_key(prefix, key)) # NotFound

\* mutant: the value read is not handed to the caller
read_token_no_out(db, prefix, key, no_throw) ==
    IF Get(db, TokensCF, db_token_key(prefix, key)) = NotFound
    THEN [ret |-> FALSE, out |-> "",
          err |-> IF no_throw THEN OK ELSE token_database_key_not_found]
    ELSE [ret |-> TRUE, out |-> "", err |-> OK]

\* out is the string of the caller, empty before the call
read_token(db, prefix, key, no_throw) ==
    LET value == Get(db, TokensCF, db_token_key(prefix, key))
    IN  IF value = NotFound
        THEN [ret |-> FALSE, out |-> "",
              err |-> IF no_throw THEN OK ELSE token_database_key_not_found]
        ELSE [ret |-> TRUE, out |-> value, err |-> OK]

exists_token_read(prefix, key) ==
    /\ Running
    /\ call' = [op |-> "exists_token", key |-> db_token_key(prefix, key),
                ret |-> exists_token(db_, prefix, key)]
    /\ err' = OK
    /\ UNCHANGED <<db_, opened, dir_exists, tokens_handle_, savepoints_, live_snapshots,
                   stream, file, puts, fault>>

read_token_read(prefix, key, no_throw) ==
    /\ Running
    /\ LET r == read_token(db_, prefix, key, no_throw)
       IN  /\ call' = [op |-> "read_token", key |-> db_token_key(prefix, key),
                       ret |-> r.ret, out |-> r.out]
           /\ err' = r.err
    /\ UNCHANGED <<db_, opened, dir_exists, tokens_handle_, savepoints_, live_snapshots,
                   stream, file, puts, fault>>

(***************************************************************************)
(* add_savepoint                                                           *)
(***************************************************************************)
\* mutant: a seq equal to the seq of the top savepoint is accepted
SeqNotValid_strict(back_seq, seq) == back_seq > seq

SeqNotValid(back_seq, seq) == back_seq >= seq

add_savepoint(seq) ==
    /\ Running
    /\ UNCHANGED puts
    /\ call' = [op |-> "add_savepoint", seq |-> seq]
    /\ IF savepoints_ # <<>> /\ SeqNotValid(Back(savepoints_).seq, seq)
       THEN /\ err' = seq_not_valid
            /\ UNCHANGED <<savepoints_, live_snapshots>>
       ELSE /\ Len(savepoints_) < MaxSavepoints
            /\ live_snapshots < MaxSnapshots
            /\ savepoints_' = Append(savepoints_, savepoint(seq, kRuntime, rt_group(db_)))
            /\ live_snapshots' = live_snapshots + 1
            /\ err' = OK
    /\ UNCHANGED <<db_, opened, dir_exists, tokens_handle_, stream, file, fault>>

(***************************************************************************)
(* rollback_to_latest_savepoint                                            *)
(***************************************************************************)
\* the call on a store with engine contents db and stack sps: the contents
\* and the stack it leaves, the exception it throws, the fault it runs into,
\* whether an assert() of it fails, and the snapshots it releases
rollback_top(db, sps, assets_handle, tokens_handle) ==
    IF sps = <<>>
    THEN [db |-> db, savepoints |-> sps, err |-> no_savepoint, fault |-> NoFault,
          asserts |-> FALSE, released |-> 0, batch |-> <<>>]
    ELSE LET n == Back(sps)
             r == IF n.type = kRuntime
                  THEN rollback_rt_group(n.group, assets_handle, tokens_handle)
                  ELSE rollback_pd_group(n.group, assets_handle, tokens_handle)
         IN  IF r.fault # NoFault
             THEN [db |-> db, savepoints |-> sps, err |-> OK, fault |-> r.fault,
                   asserts |-> r.asserts, released |-> 0, batch |-> <<>>]
             ELSE IF r.err # OK
             THEN [db |-> db,
                   savepoints |-> [sps EXCEPT ![Len(sps)].group.actions =
                                                  FreePayloads(@, r.freed)],
                   err |-> r.err, fault |-> NoFault, asserts |-> r.asserts,
                   released |-> 0, batch |-> <<>>]
             ELSE [db |-> Write(db, r.batch), savepoints |-> PopBack(sps),
                   err |-> OK, fault |-> NoFault, asserts |-> r.asserts,
                   released |-> IF n.type = kRuntime THEN 1 ELSE 0, batch |-> r.batch]

\* the keys a write batch addresses, each with its column family
BatchKeys(batch) == {<<batch[i].cf, batch[i].key>> : i \in 1..Len(batch)}

rollback_to_latest_savepoint ==
    /\ Running
    /\ UNCHANGED puts
    /\ LET r == rollback_top(db_, savepoints_, assets_handle_, tokens_handle_)
       IN  \/ /\ r.asserts
              /\ fault' = Abort
              /\ call' = [op |-> "rollback_to_latest_savepoint", keys |-> {}]
              /\ UNCHANGED <<db_, savepoints_, live_snapshots, err>>
           \/ /\ r.fault # NoFault
              /\ fault' = r.fault
              /\ call' = [op |-> "rollback_to_latest_savepoint", keys |-> {}]
              /\ UNCHANGED <<db_, savepoints_, live_snapshots, err>>
           \/ /\ r.fault = NoFault
              /\ err' = r.err
              /\ call' = [op |-> "rollback_to_latest_savepoint",
                          keys |-> BatchKeys(r.batch)]
              /\ db_' = r.db
              /\ savepoints_' = r.savepoints
              /\ live_snapshots' = live_snapshots - r.released
              /\ UNCHANGED fault
    /\ UNCHANGED <<opened, dir_exists, tokens_handle_, stream, file>>

(***************************************************************************)
(* free_savepoint, pop_savepoints, pop_back_savepoint, squash              *)
(***************************************************************************)
IsRuntime(sp) == sp.type = kRuntime

\* free() of a payload that a failed rollback has already freed
DoubleFree(sp) ==
    IsRuntime(sp) /\ \E i \in 1..Len(sp.group.actions) : sp.group.actions[i].data = Freed

\* snapshots that free_savepoint releases for the savepoints of sps
Released(sps) == Cardinality({i \in 1..Len(sps) : IsRuntime(sps[i])})

\* number of savepoints pop_savepoints takes from the front
RECURSIVE PopCount(_, _)
PopCount(sps, until) ==
    IF sps # <<>> /\ Head(sps).seq < until
    THEN 1 + PopCount(Tail(sps), until)
    ELSE 0

\* the seqs of the savepoints in the order the loop hands them to
\* free_savepoint: the front of the deque first
FreeOrder(popped) == [i \in 1..Len(popped) |-> popped[i].seq]

pop_savepoints(until) ==
    /\ Running
    /\ UNCHANGED puts
    /\ LET n == PopCount(savepoints_, until)
           popped == SubSeq(savepoints_, 1, n)
       IN  IF \E i \in 1..n : DoubleFree(popped[i])
           THEN /\ fault' = UseAfterFree
                /\ call' = [op |-> "pop_savepoints", until |-> until,
                            freed |-> FreeOrder(SubSeq(popped, 1,
                                        (CHOOSE i \in 1..n :
                                            /\ DoubleFree(popped[i])
                                            /\ \A h \in 1..(i - 1) : ~DoubleFree(popped[h])) - 1))]
                /\ UNCHANGED <<savepoints_, live_snapshots, err>>
           ELSE /\ call' = [op |-> "pop_savepoints", until |-> until,
                            freed |-> FreeOrder(popped)]
                /\ savepoints_' = SubSeq(savepoints_, n + 1, Len(savepoints_))
                /\ live_snapshots' = live_snapshots - Released(popped)
                /\ err' = OK
                /\ UNCHANGED fault
    /\ UNCHANGED <<db_, opened, dir_exists, tokens_handle_, stream, file>>

pop_back_savepoint ==
    /\ Running
    /\ UNCHANGED puts
    /\ call' = [op |-> "pop_back_savepoint"]
    /\ IF savepoints_ = <<>>
       THEN /\ err' = no_savepoint
            /\ UNCHANGED <<savepoints_, live_snapshots, fault>>
       ELSE IF DoubleFree(Back(savepoints_))
       THEN /\ fault' = UseAfterFree
            /\ UNCHANGED <<savepoints_, live_snapshots, err>>
       ELSE /\ savepoints_' = PopBack(savepoints_)
            /\ live_snapshots' = live_snapshots - Released(<<Back(savepoints_)>>)
            /\ err' = OK
            /\ UNCHANGED fault
    /\ UNCHANGED <<db_, opened, dir_exists, tokens_handle_, stream, file>>

\* mutant: the seq of the top is returned without a look at the stack
latest_savepoint_seq_unchecked(sps) ==
    [err |-> OK, ret |-> IF sps = <<>> THEN 0 ELSE Back(sps).seq]

latest_savepoint_seq(sps) ==
    IF sps = <<>>
    THEN [err |-> no_savepoint, ret |-> 0]
    ELSE [err |-> OK, ret |-> Back(sps).seq]

latest_savepoint_seq_read ==
    /\ Running
    /\ LET r == latest_savepoint_seq(savepoints_)
       IN  /\ call' = [op |-> "latest_savepoint_seq", ret |-> r.ret]
           /\ err' = r.err
    /\ UNCHANGED <<db_, opened, dir_exists, tokens_handle_, savepoints_, live_snapshots,
                   stream, file, puts, fault>>

\* mutant: the form of the savepoint below the top is not looked at
squash_top_unchecked(sps) ==
    IF Len(sps) < 2 \/ ~IsRuntime(Back(sps))
    THEN [savepoints |-> sps, err |-> squash_exception, released |-> 0]
    ELSE [savepoints |-> [PopBack(sps) EXCEPT ![Len(sps) - 1].group.actions =
                                                 @ \o Back(sps).group.actions],
          err |-> OK, released |-> 1]

\* mutant: the actions of the top are put in front of those of the lower one
squash_top_prepended(sps) ==
    IF Len(sps) < 2 \/ ~IsRuntime(Back(sps))
    THEN [savepoints |-> sps, err |-> squash_exception, released |-> 0]
    ELSE IF ~IsRuntime(Back(PopBack(sps)))
    THEN [savepoints |-> PopBack(sps), err |-> squash_exception, released |-> 0]
    ELSE [savepoints |-> [PopBack(sps) EXCEPT ![Len(sps) - 1].group.actions =
                                                 Back(sps).group.actions \o @],
          err |-> OK, released |-> 1]

\* the stack squash() leaves, the exception it throws, the snapshots it releases
squash_top(sps) ==
    IF Len(sps) < 2 \/ ~IsRuntime(Back(sps))
    THEN [savepoints |-> sps, err |-> squash_exception, released |-> 0]
    ELSE LET n == Back(sps)
             rest == PopBack(sps)
             n2 == Back(rest)
         IN  IF ~IsRuntime(n2)
             THEN \* the top savepoint is already popped when this check fails
                  [savepoints |-> rest, err |-> squash_exception, released |-> 0]
             ELSE [savepoints |-> [rest EXCEPT ![Len(rest)].group.actions =
                                                  @ \o n.group.actions],
                   err |-> OK, released |-> 1]

squash ==
    /\ Running
    /\ UNCHANGED puts
    /\ call' = [op |-> "squash"]
    /\ LET r == squash_top(savepoints_)
       IN  /\ err' = r.err
           /\ savepoints_' = r.savepoints
           /\ live_snapshots' = live_snapshots - r.released
    /\ UNCHANGED <<db_, opened, dir_exists, tokens_handle_, stream, file, fault>>

(***************************************************************************)
(* persist_savepoints and load_savepoints on a stream of the caller        *)
(***************************************************************************)
\* mutant: the savepoints written are left on the stack in persistent form,
\* their snapshots released
persist_savepoints_stream_converting(io_ok) ==
    /\ Running
    /\ UNCHANGED puts
    /\ call' = [op |-> "persist_savepoints"]
    /\ LET r == persist_savepoints(savepoints_, assets_handle_, tokens_handle_, io_ok)
       IN  \/ /\ r.asserts
              /\ fault' = Abort
              /\ UNCHANGED <<stream, err, savepoints_, live_snapshots>>
           \/ /\ r.fault # NoFault
              /\ fault' = r.fault
              /\ stream' = r.os
              /\ UNCHANGED <<err, savepoints_, live_snapshots>>
           \/ /\ r.fault = NoFault
              /\ err' = r.err
              /\ stream' = r.os
              /\ savepoints_' = IF r.err = OK THEN LoadedSavepoints(r.os.pds) ELSE savepoints_
              /\ live_snapshots' = IF r.err = OK THEN 0 ELSE live_snapshots
              /\ UNCHANGED fault
    /\ UNCHANGED <<db_, opened, dir_exists, tokens_handle_, file>>

persist_savepoints_stream(io_ok) ==
    /\ Running
    /\ UNCHANGED puts
    /\ call' = [op |-> "persist_savepoints"]
    /\ LET r == persist_savepoints(savepoints_, assets_handle_, tokens_handle_, io_ok)
       IN  \/ /\ r.asserts
              /\ fault' = Abort
              /\ UNCHANGED <<stream, err>>
           \/ /\ r.fault # NoFault
              /\ fault' = r.fault
              /\ stream' = r.os
              /\ UNCHANGED err
           \/ /\ r.fault = NoFault
              /\ err' = r.err
              /\ stream' = r.os
              /\ UNCHANGED fault
    /\ UNCHANGED <<db_, opened, dir_exists, tokens_handle_, savepoints_,
                   live_snapshots, file>>

load_savepoints_stream ==
    /\ Running
    /\ stream # NoStream
    /\ Len(savepoints_) + Len(stream.pds) <= MaxSavepoints
    /\ UNCHANGED puts
    /\ call' = [op |-> "load_savepoints"]
    /\ LET r == load_savepoints(savepoints_, stream)
       IN  /\ err' = r.err
           /\ savepoints_' = r.savepoints
    /\ UNCHANGED <<db_, opened, dir_exists, tokens_handle_, live_snapshots,
                   stream, file, fault>>

(***************************************************************************)
(* close and open; persist_savepoints() and load_savepoints() on the file  *)
(***************************************************************************)
token_database_exception == "token_database_exception"
persist_exception == "token_database_persist_exception"

\* persist_savepoints() removes the old file, opens a new one and writes to
\* it through the buffer of the fstream.  What a failed attempt leaves: no
\* file when the open fails, a file without a byte when the header does not
\* reach it, else the header with dirty_flag 1.
FileAfterFailure(r) ==
    IF r.fault # NoFault \/ r.asserts
    THEN {EmptyStream, StreamOf(1, <<>>)}
    ELSE IF r.err = stream_failure
    THEN {NoStream, EmptyStream, StreamOf(1, <<>>)}
    ELSE {r.os}

close(persist, io_ok) ==
    /\ fault = NoFault
    /\ UNCHANGED puts
    /\ call' = [op |-> "close", persist |-> persist]
    /\ IF ~opened
       THEN /\ err' = OK
            /\ UNCHANGED <<opened, tokens_handle_, savepoints_, live_snapshots, file, fault>>
       ELSE LET r == persist_savepoints(savepoints_, assets_handle_, tokens_handle_, io_ok)
            IN  \/ /\ persist
                   /\ r.asserts
                   /\ fault' = Abort
                   /\ file' \in FileAfterFailure(r)
                   /\ UNCHANGED <<opened, tokens_handle_, savepoints_, live_snapshots, err>>
                \/ /\ persist
                   /\ r.fault # NoFault
                   /\ fault' = r.fault
                   /\ file' \in FileAfterFailure(r)
                   /\ UNCHANGED <<opened, tokens_handle_, savepoints_, live_snapshots, err>>
                \/ /\ persist
                   /\ r.fault = NoFault
                   /\ r.err # OK
                   /\ err' = persist_exception
                   /\ file' \in FileAfterFailure(r)
                   /\ UNCHANGED <<opened, tokens_handle_, savepoints_, live_snapshots, fault>>
                \/ /\ persist => r.fault = NoFault /\ r.err = OK
                   /\ file' = IF persist THEN r.os ELSE file
                   /\ IF \E i \in 1..Len(savepoints_) : DoubleFree(savepoints_[i])
                      THEN /\ fault' = UseAfterFree
                           /\ UNCHANGED <<opened, tokens_handle_, savepoints_,
                                          live_snapshots, err>>
                      ELSE /\ savepoints_' = <<>>
                           /\ live_snapshots' = live_snapshots - Released(savepoints_)
                           /\ tokens_handle_' = nullptr
                           /\ opened' = FALSE
                           /\ err' = OK
                           /\ UNCHANGED fault
    /\ UNCHANGED <<db_, dir_exists, stream>>

\* load_savepoints(): nothing without a file; else the stack is cleared and
\* the savepoints of the file are loaded
load_savepoints_file(sps, f) ==
    IF f = NoStream THEN [err |-> OK, savepoints |-> sps]
    ELSE load_savepoints(<<>>, f)

open(load_persistence) ==
    /\ fault = NoFault
    /\ UNCHANGED puts
    /\ call' = [op |-> "open", load_persistence |-> load_persistence]
    /\ IF opened
       THEN /\ err' = token_database_exception
            /\ UNCHANGED <<opened, dir_exists, tokens_handle_, savepoints_>>
       ELSE LET r == IF load_persistence
                     THEN load_savepoints_file(savepoints_, file)
                     ELSE [err |-> OK, savepoints |-> savepoints_]
            IN  /\ opened' = TRUE
                /\ dir_exists' = TRUE
                /\ tokens_handle_' = IF dir_exists THEN TokensCF ELSE tokens_handle_
                /\ savepoints_' = r.savepoints
                /\ err' = r.err
    /\ UNCHANGED <<db_, live_snapshots, stream, file, fault>>

(***************************************************************************)
(* Specification of the store.                                             *)
(***************************************************************************)
PutNames == {"a"}
KeyLists == {<<"a", "b">>}
ListTypes == {tt_token}
LegalPrefixes(type) == IF type = tt_token THEN Domains ELSE {PrefixOf(type)}

Next ==
    \/ open(FALSE) /\ UNCHANGED idle
    \/ close(FALSE, TRUE) /\ UNCHANGED idle
    \/ \E type \in RecordTypes, op \in Ops, key \in PutNames, data \in Values, io_ok \in BOOLEAN :
          \E prefix \in LegalPrefixes(type) :
              put_token(type, op, prefix, key, data, io_ok) /\ UNCHANGED idle
    \/ \E type \in ListTypes, op \in Ops, keys \in KeyLists, v \in Values :
          \E prefix \in LegalPrefixes(type), fail_at \in 0..Len(keys) :
              /\ put_tokens(type, op, prefix, keys, [i \in 1..Len(keys) |-> v], fail_at)
              /\ UNCHANGED idle
    \/ \E addr \in Addrs, sym \in Syms, data \in Values, io_ok \in BOOLEAN :
          put_asset(addr, sym, data, io_ok) /\ UNCHANGED idle
    \/ \E seq \in 1..MaxSeq : add_savepoint(seq) /\ UNCHANGED idle
    \/ rollback_to_latest_savepoint /\ UNCHANGED idle
    \/ \E until \in 1..MaxSeq + 1 : pop_savepoints(until) /\ UNCHANGED idle
    \/ pop_back_savepoint /\ UNCHANGED idle
    \/ squash /\ UNCHANGED idle

Spec == Init /\ [][Next]_vars

(***************************************************************************)
(* Sessions.  new_savepoint_session() adds a savepoint with the next seq   *)
(* and hands out a session object; accept() commits it, which leaves the   *)
(* savepoint on the stack; the destructor of a session that was not        *)
(* accepted calls rollback_to_latest_savepoint.                            *)
(***************************************************************************)
new_savepoint_session_seq(sps) == IF sps # <<>> THEN Back(sps).seq + 1 ELSE 1

session(seq) == [seq |-> seq, accept |-> FALSE]

new_savepoint_session ==
    LET seq == new_savepoint_session_seq(savepoints_)
    IN  /\ seq <= MaxSeq
        /\ Len(sessions) < MaxSessions
        /\ add_savepoint(seq)
        /\ sessions' = Append(sessions, session(seq))
        /\ UNCHANGED cache_

session_accept ==
    /\ Running
    /\ \E i \in 1..Len(sessions) :
          /\ ~sessions[i].accept
          /\ sessions' = [sessions EXCEPT ![i].accept = TRUE]
          /\ call' = [op |-> "session::accept", seq |-> sessions[i].seq]
    /\ err' = OK
    /\ UNCHANGED <<db_, opened, dir_exists, tokens_handle_, savepoints_, live_snapshots,
                   stream, file, puts, fault, cache_>>

\* the session objects are scoped: the innermost one is destroyed first
session_destructor ==
    /\ sessions # <<>>
    /\ sessions' = PopBack(sessions)
    /\ IF Back(sessions).accept
       THEN /\ Running
            /\ call' = [op |-> "session::~session", seq |-> Back(sessions).seq]
            /\ err' = OK
            /\ UNCHANGED <<db_, opened, dir_exists, tokens_handle_, savepoints_,
                           live_snapshots, stream, file, puts, fault>>
       ELSE rollback_to_latest_savepoint
    /\ UNCHANGED cache_

NextSession ==
    \/ open(FALSE) /\ UNCHANGED idle
    \/ close(FALSE, TRUE) /\ UNCHANGED idle
    \/ \E op \in Ops, key \in Names, data \in Values, io_ok \in BOOLEAN :
          /\ put_token(tt_domain, op, PrefixOf(tt_domain), key, data, io_ok)
          /\ UNCHANGED idle
    \/ new_savepoint_session /\ UNCHANGED serializer
    \/ session_accept /\ UNCHANGED serializer
    \/ session_destructor /\ UNCHANGED serializer

SpecSession == Init /\ [][NextSession]_vars

(***************************************************************************)
(* token_database_cache over the public interface of the store.  The       *)
(* public put_token and read_token assert on their arguments, which a      *)
(* build with NDEBUG does not check, and take the prefix from the domain   *)
(* or, without one, from the token type.                                   *)
(***************************************************************************)
ArgsAsserted(type, domain) == type # tt_asset /\ (type = tt_token \/ domain # nullopt)
PrefixFor(type, domain) == IF domain # nullopt THEN domain ELSE PrefixOf(type)

\* the engine key behind a cache key
DbKeyOf(k) == db_token_key(PrefixFor(k[1], k[2]), k[3])

cache_read_token(type, domain, key, no_throw) ==
    /\ Running
    /\ LET k == cache_key(type, domain, key)
           v == Get(db_, TokensCF, db_token_key(PrefixFor(type, domain), key))
       IN  IF cache_[k] # NoEntry
           THEN /\ call' = [op |-> "cache_read_token", key |-> k, ret |-> cache_[k]]
                /\ err' = OK
                /\ UNCHANGED <<cache_, fault>>
           ELSE \/ /\ ~ArgsAsserted(type, domain)
                   /\ fault' = Abort
                   /\ call' = [op |-> "cache_read_token", key |-> k, ret |-> nullptr]
                   /\ UNCHANGED <<cache_, err>>
                \/ /\ v = NotFound
                   /\ call' = [op |-> "cache_read_token", key |-> k, ret |-> nullptr]
                   /\ err' = IF no_throw THEN OK ELSE token_database_key_not_found
                   /\ UNCHANGED <<cache_, fault>>
                \/ /\ v # NotFound
                   /\ call' = [op |-> "cache_read_token", key |-> k, ret |-> v]
                   /\ cache_' = [cache_ EXCEPT ![k] = v]
                   /\ err' = OK
                   /\ UNCHANGED fault
    /\ UNCHANGED <<db_, opened, dir_exists, tokens_handle_, savepoints_, live_snapshots,
                   stream, file, puts, sessions>>

cache_put_token(type, op, domain, key, data, io_ok) ==
    LET k == cache_key(type, domain, key)
    IN  IF cache_[k] # NoEntry
        THEN /\ Running
             /\ call' = [op |-> "cache_put_token", key |-> k]
             /\ err' = assert_exception
             /\ UNCHANGED <<db_, opened, dir_exists, tokens_handle_, savepoints_,
                            live_snapshots, stream, file, puts, fault, clients>>
        ELSE \/ /\ Running
                /\ ~ArgsAsserted(type, domain)
                /\ fault' = Abort
                /\ call' = [op |-> "cache_put_token", key |-> k]
                /\ UNCHANGED <<db_, opened, dir_exists, tokens_handle_, savepoints_,
                               live_snapshots, stream, file, puts, err, clients>>
             \/ /\ put_token(type, op, PrefixFor(type, domain), key, data, io_ok)
                /\ cache_' = IF io_ok THEN [cache_ EXCEPT ![k] = data] ELSE cache_
                /\ UNCHANGED sessions

\* the calls made on the cache: domain records without a domain, tokens with one
CacheArgs == {<<tt_domain, nullopt>>} \cup {<<tt_token, d>> : d \in Domains}

NextCache ==
    \/ open(FALSE) /\ UNCHANGED idle
    \/ close(FALSE, TRUE) /\ UNCHANGED idle
    \/ \E a \in CacheArgs, op \in Ops, key \in PutNames, data \in Values, io_ok \in BOOLEAN :
          cache_put_token(a[1], op, a[2], key, data, io_ok) /\ UNCHANGED serializer
    \/ \E a \in CacheArgs, key \in PutNames, no_throw \in BOOLEAN :
          cache_read_token(a[1], a[2], key, no_throw) /\ UNCHANGED serializer
    \/ \E seq \in 1..MaxSeq : add_savepoint(seq) /\ UNCHANGED idle
    \/ rollback_to_latest_savepoint /\ UNCHANGED idle
    \/ pop_back_savepoint /\ UNCHANGED idle

SpecCache == Init /\ [][NextCache]_vars

(***************************************************************************)
(* The store with the savepoints persisted to and loaded from a stream of  *)
(* the caller.                                                             *)
(***************************************************************************)
PersistValues == {"x"}

PersistPut ==
    \E key \in PutNames, data \in PersistValues :
        /\ puts < MaxPersistPuts
        /\ put_token(tt_domain, op_put, PrefixOf(tt_domain), key, data, TRUE)

NextPersist ==
    \/ open(FALSE) /\ UNCHANGED idle
    \/ close(FALSE, TRUE) /\ UNCHANGED idle
    \/ PersistPut /\ UNCHANGED idle
    \/ \E seq \in 1..MaxSeq : add_savepoint(seq) /\ UNCHANGED idle
    \/ pop_back_savepoint /\ UNCHANGED idle
    \/ \E io_ok \in BOOLEAN : persist_savepoints_stream(io_ok) /\ UNCHANGED idle
    \/ load_savepoints_stream /\ UNCHANGED idle

SpecPersist == Init /\ [][NextPersist]_vars

(***************************************************************************)
(* The store with the savepoints persisted to the file of the database     *)
(* directory on close and loaded from it on open.                          *)
(***************************************************************************)
NextFile ==
    \/ \E load_persistence \in BOOLEAN : open(load_persistence) /\ UNCHANGED idle
    \/ \E persist \in BOOLEAN, io_ok \in BOOLEAN : close(persist, io_ok) /\ UNCHANGED idle
    \/ PersistPut /\ UNCHANGED idle
    \/ \E seq \in 1..MaxSeq : add_savepoint(seq) /\ UNCHANGED idle
    \/ rollback_to_latest_savepoint /\ UNCHANGED idle
    \/ pop_back_savepoint /\ UNCHANGED idle

SpecFile == Init /\ [][NextFile]_vars

(***************************************************************************)
(* Squash over stacks that hold runtime and persistent savepoints.         *)
(***************************************************************************)
NextSquash ==
    \/ open(FALSE) /\ UNCHANGED idle
    \/ close(FALSE, TRUE) /\ UNCHANGED idle
    \/ PersistPut /\ UNCHANGED idle
    \/ \E seq \in 1..MaxSeq : add_savepoint(seq) /\ UNCHANGED idle
    \/ persist_savepoints_stream(TRUE) /\ UNCHANGED idle
    \/ load_savepoints_stream /\ UNCHANGED idle
    \/ squash /\ UNCHANGED idle

SpecSquash == Init /\ [][NextSquash]_vars

(***************************************************************************)
(* pop_savepoints over stacks that hold runtime and loaded savepoints.     *)
(***************************************************************************)
NextPop ==
    \/ open(FALSE) /\ UNCHANGED idle
    \/ close(FALSE, TRUE) /\ UNCHANGED idle
    \/ PersistPut /\ UNCHANGED idle
    \/ \E seq \in 1..MaxSeq : add_savepoint(seq) /\ UNCHANGED idle
    \/ persist_savepoints_stream(TRUE) /\ UNCHANGED idle
    \/ load_savepoints_stream /\ UNCHANGED idle
    \/ \E until \in 1..MaxSeq + 1 : pop_savepoints(until) /\ UNCHANGED idle

SpecPop == Init /\ [][NextPop]_vars

(***************************************************************************)
(* The three kinds of put, inside and outside of savepoints.               *)
(***************************************************************************)
NextPut ==
    \/ open(FALSE) /\ UNCHANGED idle
    \/ close(FALSE, TRUE) /\ UNCHANGED idle
    \/ \E type \in RecordTypes, op \in Ops, key \in PutNames, data \in PersistValues, io_ok \in BOOLEAN :
          \E prefix \in LegalPrefixes(type) :
              put_token(type, op, prefix, key, data, io_ok) /\ UNCHANGED idle
    \/ \E type \in ListTypes, op \in Ops, keys \in KeyLists, v \in PersistValues :
          \E prefix \in LegalPrefixes(type), fail_at \in 0..Len(keys) :
              /\ put_tokens(type, op, prefix, keys, [i \in 1..Len(keys) |-> v], fail_at)
              /\ UNCHANGED idle
    \/ \E addr \in Addrs, sym \in Syms, data \in PersistValues, io_ok \in BOOLEAN :
          put_asset(addr, sym, data, io_ok) /\ UNCHANGED idle
    \/ \E seq \in 1..MaxSeq : add_savepoint(seq) /\ UNCHANGED idle
    \/ rollback_to_latest_savepoint /\ UNCHANGED idle

SpecPut == Init /\ [][NextPut]_vars

(***************************************************************************)
(* Reads of token records between puts and rollbacks.                      *)
(***************************************************************************)
NextRead ==
    \/ open(FALSE) /\ UNCHANGED idle
    \/ close(FALSE, TRUE) /\ UNCHANGED idle
    \/ \E op \in Ops, key \in PutNames, data \in Values :
          /\ put_token(tt_domain, op, PrefixOf(tt_domain), key, data, TRUE)
          /\ UNCHANGED idle
    \/ \E seq \in 1..MaxSeq : add_savepoint(seq) /\ UNCHANGED idle
    \/ rollback_to_latest_savepoint /\ UNCHANGED idle
    \/ \E key \in PutNames : exists_token_read(PrefixOf(tt_domain), key) /\ UNCHANGED idle
    \/ \E key \in PutNames, no_throw \in BOOLEAN :
          read_token_read(PrefixOf(tt_domain), key, no_throw) /\ UNCHANGED idle

SpecRead == Init /\ [][NextRead]_vars

(***************************************************************************)
(* The savepoint stack alone, under puts of one record.                    *)
(***************************************************************************)
NextStack ==
    \/ open(FALSE) /\ UNCHANGED idle
    \/ close(FALSE, TRUE) /\ UNCHANGED idle
    \/ \E op \in Ops, key \in PutNames, data \in Values :
          /\ put_token(tt_domain, op, PrefixOf(tt_domain), key, data, TRUE)
          /\ UNCHANGED idle
    \/ \E seq \in 1..MaxSeq : add_savepoint(seq) /\ UNCHANGED idle
    \/ rollback_to_latest_savepoint /\ UNCHANGED idle
    \/ \E until \in 1..MaxSeq + 1 : pop_savepoints(until) /\ UNCHANGED idle
    \/ pop_back_savepoint /\ UNCHANGED idle
    \/ squash /\ UNCHANGED idle
    \/ latest_savepoint_seq_read /\ UNCHANGED idle

SpecStack == Init /\ [][NextStack]_vars

(***************************************************************************)
(* What a recorded action stands for: the op the put was called with, the  *)
(* engine keys it wrote and the column family it wrote them to.            *)
(***************************************************************************)
RecordedOp(act) == act.exts % 16

ActionKeys(act) ==
    IF get_data_type(act) = kTokenKeys
    THEN [i \in 1..Len(act.data.keys) |-> db_token_key(act.data.prefix, act.data.keys[i])]
    ELSE <<get_sp_key(act)>>

ActionCF(act) == IF get_token_type(act) = tt_asset THEN AssetsCF ELSE TokensCF

Touches(act, cf, key) ==
    ActionCF(act) = cf /\ \E i \in 1..Len(ActionKeys(act)) : ActionKeys(act)[i] = key

Touched(actions, cf, key) == \E j \in 1..Len(actions) : Touches(actions[j], cf, key)

\* the first recorded action of the list that touches the key
FirstTouch(actions, cf, key) ==
    actions[CHOOSE j \in 1..Len(actions) :
                /\ Touches(actions[j], cf, key)
                /\ \A h \in 1..(j - 1) : ~Touches(actions[h], cf, key)]

\* number of times the key occurs in the recorded actions
TouchCount(actions, cf, key) ==
    Cardinality({<<j, i>> \in (1..Len(actions)) \X (1..Cardinality(Names)) :
                    /\ ActionCF(actions[j]) = cf
                    /\ i <= Len(ActionKeys(actions[j]))
                    /\ ActionKeys(actions[j])[i] = key})

\* the recorded ops were legal when issued: add on keys absent then, update
\* on keys present then, starting from the contents of the snapshot
RECURSIVE LegalFrom(_, _)
LegalFrom(present, actions) ==
    IF actions = <<>> THEN TRUE
    ELSE LET act == Head(actions)
             ks == {<<ActionCF(act), ActionKeys(act)[i]>> : i \in 1..Len(ActionKeys(act))}
         IN  /\ RecordedOp(act) = op_add => ks \cap present = {}
             /\ RecordedOp(act) = op_update => ks \subseteq present
             /\ LegalFrom(present \cup ks, Tail(actions))

PresentIn(db) ==
    {<<cf, k>> \in {TokensCF, AssetsCF} \X KeyUniverse : Get(db, cf, k) # NotFound}

\* sp is a runtime savepoint whose recorded actions are the legal puts that
\* lead from its snapshot to the contents db
WellRecorded(sp, db) ==
    /\ sp.type = kRuntime
    /\ \A j \in 1..Len(sp.group.actions) : sp.group.actions[j].data # Freed
    /\ LegalFrom(PresentIn(sp.group.rb_snapshot), sp.group.actions)
    /\ \A cf \in {TokensCF, AssetsCF}, k \in KeyUniverse :
          ~Touched(sp.group.actions, cf, k)
              => Get(db, cf, k) = Get(sp.group.rb_snapshot, cf, k)

\* every savepoint of the stack is well recorded up to the snapshot of the
\* next one, the top one up to the contents db
WellRecordedStack(sps, db) ==
    \A i \in 1..Len(sps) :
        /\ sps[i].type = kRuntime
        /\ WellRecorded(sps[i], IF i = Len(sps) THEN db
                                ELSE IF sps[i + 1].type = kRuntime
                                     THEN sps[i + 1].group.rb_snapshot ELSE db)

IsPut(c) == c.op \in {"put_token", "put_tokens", "put_asset"}
IsRollback(c) == c.op = "rollback_to_latest_savepoint"

(***************************************************************************)
(* C1 (as claimed): a rollback of a runtime savepoint whose actions are    *)
(* the legal puts issued since it was added completes without error and    *)
(* leaves both column families as they were when the savepoint was added,  *)
(* for every token type and data kind.  Stated for a store whose token     *)
(* handle is set.                                                          *)
(***************************************************************************)
C1_RollbackRestoresSnapshot ==
    [][(/\ IsRollback(call')
        /\ savepoints_ # <<>>
        /\ tokens_handle_ # nullptr
        /\ WellRecorded(Back(savepoints_), db_))
          => (/\ err' = OK
              /\ fault' = NoFault
              /\ db_' = Back(savepoints_).group.rb_snapshot)]_vars

(***************************************************************************)
(* C6: add_savepoint(seq) with seq <= the seq of the top savepoint throws  *)
(* seq-not-valid and leaves the stack and the snapshots as they were; with *)
(* a greater seq, or on an empty stack, it pushes exactly one empty        *)
(* runtime savepoint with that seq over a snapshot of the contents.        *)
(***************************************************************************)
C6_AddSavepoint ==
    [][call'.op = "add_savepoint"
          => IF savepoints_ # <<>> /\ call'.seq <= Back(savepoints_).seq
             THEN /\ err' = seq_not_valid
                  /\ savepoints_' = savepoints_
                  /\ live_snapshots' = live_snapshots
             ELSE /\ err' = OK
                  /\ Len(savepoints_') = Len(savepoints_) + 1
                  /\ PopBack(savepoints_') = savepoints_
                  /\ Back(savepoints_').seq = call'.seq
                  /\ Back(savepoints_').type = kRuntime
                  /\ Back(savepoints_').group.actions = <<>>
                  /\ Back(savepoints_').group.rb_snapshot = db_
                  /\ live_snapshots' = live_snapshots + 1]_vars

\* a refused add_savepoint on a stack whose top holds recorded actions
C6_Witness ==
    /\ call.op = "add_savepoint"
    /\ err = seq_not_valid
    /\ savepoints_ # <<>>
    /\ Back(savepoints_).group.actions # <<>>

(***************************************************************************)
(* C8 (as claimed): while the stack is non-empty every key a put call has  *)
(* written, a put_tokens call that failed part-way included, is covered by *)
(* a recorded action of the top savepoint.                                 *)
(***************************************************************************)
C8_NoUnrecordedWrite ==
    (/\ IsPut(call)
     /\ fault = NoFault
     /\ savepoints_ # <<>>
     /\ IsRuntime(Back(savepoints_)))
        => \A i \in 1..call.written :
              Touched(Back(savepoints_).group.actions, call.cf, call.keys[i])

(***************************************************************************)
(* C7 (as claimed): when a key was touched more than once under one        *)
(* runtime savepoint, rollback decides by the first recorded action alone: *)
(* a first add leaves the key absent, a first update or put leaves it with *)
(* the value of the snapshot.                                              *)
(***************************************************************************)
C7_EarliestActionWins ==
    [][(/\ IsRollback(call')
        /\ savepoints_ # <<>>
        /\ tokens_handle_ # nullptr
        /\ WellRecorded(Back(savepoints_), db_))
          => LET top == Back(savepoints_).group
             IN  \A cf \in {TokensCF, AssetsCF}, k \in KeyUniverse :
                    TouchCount(top.actions, cf, k) >= 2
                       => IF RecordedOp(FirstTouch(top.actions, cf, k)) = op_add
                          THEN Get(db_', cf, k) = NotFound
                          ELSE Get(db_', cf, k) = Get(top.rb_snapshot, cf, k)]_vars

RECURSIVE RollbackAll(_, _, _, _)
RollbackAll(db, sps, assets_handle, tokens_handle) ==
    IF sps = <<>>
    THEN [db |-> db, err |-> OK, fault |-> NoFault]
    ELSE LET r == rollback_top(db, sps, assets_handle, tokens_handle)
         IN  IF r.err # OK \/ r.fault # NoFault
             THEN [db |-> r.db, err |-> r.err, fault |-> r.fault]
             ELSE RollbackAll(r.db, r.savepoints, assets_handle, tokens_handle)

(***************************************************************************)
(* C4 (as claimed): persisting a stack of runtime savepoints, loading the  *)
(* stream into an empty stack and rolling every loaded savepoint back      *)
(* leaves the contents that rolling back the runtime stack leaves, keys    *)
(* whose pre-image is the empty byte string included.                      *)
(***************************************************************************)
C4_PersistenceRoundTrip ==
    (/\ Running
     /\ fault = NoFault
     /\ tokens_handle_ # nullptr
     /\ savepoints_ # <<>>
     /\ WellRecordedStack(savepoints_, db_))
        => LET p == persist_savepoints(savepoints_, assets_handle_, tokens_handle_, TRUE)
               l == load_savepoints(<<>>, p.os)
               viaLoad == RollbackAll(db_, l.savepoints, assets_handle_, tokens_handle_)
               direct == RollbackAll(db_, savepoints_, assets_handle_, tokens_handle_)
           IN  /\ p.err = OK /\ p.fault = NoFault
               /\ l.err = OK
               /\ viaLoad.err = OK /\ viaLoad.fault = NoFault
               /\ viaLoad.db = direct.db
               /\ viaLoad.db = savepoints_[1].group.rb_snapshot

(***************************************************************************)
(* C2 (as claimed): session A opens, session B opens inside A, both put,   *)
(* B commits and ends, then A is dropped without commit: the contents are  *)
(* those of the moment A was opened, which the snapshot of A's savepoint   *)
(* holds.                                                                  *)
(***************************************************************************)
C2_CommitThenRollbackOuter ==
    [][(/\ sessions # <<>>
        /\ sessions' = PopBack(sessions)
        /\ ~Back(sessions).accept
        /\ Running
        /\ tokens_handle_ # nullptr
        /\ Len(savepoints_) >= 2
        /\ savepoints_[Len(savepoints_) - 1].seq = Back(sessions).seq
        /\ WellRecordedStack(SubSeq(savepoints_, Len(savepoints_) - 1, Len(savepoints_)),
                             db_)
        /\ savepoints_[Len(savepoints_) - 1].group.actions # <<>>
        /\ Back(savepoints_).group.actions # <<>>)
          => db_' = savepoints_[Len(savepoints_) - 1].group.rb_snapshot]_vars

(***************************************************************************)
(* C5 (as claimed): in every reachable state the seqs of the savepoints of *)
(* the stack increase strictly from front to back.                         *)
(***************************************************************************)
C5_SeqMonotonic ==
    \A i \in 1..(Len(savepoints_) - 1) : savepoints_[i].seq < savepoints_[i + 1].seq

(***************************************************************************)
(* C9 (as claimed): a read through the cache that follows a successful     *)
(* rollback, of a key the rollback restored or deleted, returns the value  *)
(* the engine holds for the key, or reports its absence.                   *)
(***************************************************************************)
C9_CacheConsistency ==
    [][(/\ call'.op = "cache_read_token"
        /\ IsRollback(call)
        /\ err = OK
        /\ fault = NoFault
        /\ fault' = NoFault
        /\ <<TokensCF, DbKeyOf(call'.key)>> \in call.keys)
          => IF Get(db_, TokensCF, DbKeyOf(call'.key)) = NotFound
             THEN call'.ret = nullptr
             ELSE call'.ret = Get(db_, TokensCF, DbKeyOf(call'.key))]_vars

(***************************************************************************)
(* C10: loading a stream whose header has a dirty_flag other than 0 fails  *)
(* with the dirty-flag error and adds no savepoint to the stack; loading   *)
(* one with dirty_flag 0 appends every persisted savepoint, in order and   *)
(* in persistent form.                                                     *)
(***************************************************************************)
Appended(before, after, pds) ==
    /\ Len(after) = Len(before) + Len(pds)
    /\ SubSeq(after, 1, Len(before)) = before
    /\ \A i \in 1..Len(pds) :
          /\ after[Len(before) + i].seq = pds[i].seq
          /\ after[Len(before) + i].type = kPersist
          /\ after[Len(before) + i].group.actions = pds[i].actions

C10_DirtyFlagLoad ==
    [][call'.op = "load_savepoints"
          => IF stream.h.dirty_flag # 0
             THEN err' = dirty_flag_exception /\ savepoints_' = savepoints_
             ELSE err' = OK /\ Appended(savepoints_, savepoints_', stream.pds)]_vars

\* a load of a dirty stream refused on a stack that holds a savepoint
C10_Witness ==
    /\ call.op = "load_savepoints"
    /\ err = dirty_flag_exception
    /\ stream.h.dirty_flag # 0
    /\ savepoints_ # <<>>

(***************************************************************************)
(* C11 (as claimed): a persist attempt of close that fails or is           *)
(* interrupted at any step, the steps between the removal of the old file  *)
(* and the write of the new header included, leaves a file that the next   *)
(* open with load_persistence refuses with the dirty-flag error.           *)
(***************************************************************************)
PersistAttemptFailed ==
    /\ call.op = "close"
    /\ call.persist
    /\ (err = persist_exception \/ fault # NoFault)

C11_DirtyFlagProtocol ==
    PersistAttemptFailed
        => load_savepoints_file(<<>>, file).err = dirty_flag_exception

(***************************************************************************)
(* C12: rollback_to_latest_savepoint, pop_back_savepoint and               *)
(* latest_savepoint_seq called on an empty stack fail with the             *)
(* no-savepoint error and leave the engine contents and the empty stack    *)
(* unchanged.                                                              *)
(***************************************************************************)
NeedsSavepoint(c) ==
    c.op \in {"rollback_to_latest_savepoint", "pop_back_savepoint", "latest_savepoint_seq"}

C12_NoSavepoint ==
    [][(NeedsSavepoint(call') /\ savepoints_ = <<>>)
          => /\ err' = no_savepoint
             /\ fault' = NoFault
             /\ db_' = db_
             /\ savepoints_' = <<>>
             /\ live_snapshots' = live_snapshots]_vars

\* a rollback refused on an empty stack over an engine that holds a record
C12_Witness ==
    /\ IsRollback(call)
    /\ err = no_savepoint
    /\ savepoints_ = <<>>
    /\ \E k \in KeyUniverse : Get(db_, TokensCF, k) # NotFound

(***************************************************************************)
(* C13: squash() fails with the squash error whenever the stack holds      *)
(* fewer than two savepoints or one of the two topmost savepoints is in    *)
(* persistent form, and succeeds only when the two topmost savepoints are  *)
(* both runtime savepoints.                                                *)
(***************************************************************************)
TwoRuntimeOnTop(sps) ==
    /\ Len(sps) >= 2
    /\ IsRuntime(sps[Len(sps)])
    /\ IsRuntime(sps[Len(sps) - 1])

C13_SquashPrecondition ==
    [][call'.op = "squash"
          => err' = IF TwoRuntimeOnTop(savepoints_) THEN OK ELSE squash_exception]_vars

\* a squash refused over a persistent savepoint
C13_Witness ==
    /\ call.op = "squash"
    /\ err = squash_exception
    /\ savepoints_ # <<>>
    /\ ~IsRuntime(Back(savepoints_))

(***************************************************************************)
(* C14 (as claimed): pop_savepoints(until) removes exactly the savepoints  *)
(* whose seq is less than until, keeps every savepoint with seq greater    *)
(* than or equal to until in its original order, raises no error and does  *)
(* not change the engine contents.                                         *)
(***************************************************************************)
KeptFrom(sps, until) == SelectSeq(sps, LAMBDA sp : sp.seq >= until)

C14_PopSavepoints ==
    [][call'.op = "pop_savepoints"
          => /\ err' = OK
             /\ fault' = NoFault
             /\ savepoints_' = KeptFrom(savepoints_, call'.until)
             /\ db_' = db_]_vars

(***************************************************************************)
(* C15 (as claimed): in every reachable state the number of engine         *)
(* snapshots acquired and not yet released equals the number of runtime    *)
(* savepoints on the stack, also after a squash that fails.                *)
(***************************************************************************)
C15_SnapshotOwnership == live_snapshots = Released(savepoints_)

(***************************************************************************)
(* C16: a put_token, put_tokens or put_asset issued while the savepoint    *)
(* stack is empty writes the value to the engine and records nothing: the  *)
(* stack stays empty, and a rollback issued after it fails on the empty    *)
(* stack and leaves the written value in the engine.                       *)
(***************************************************************************)
C16_PutOutsideSavepoint ==
    [][(IsPut(call') /\ savepoints_ = <<>>)
          => /\ savepoints_' = <<>>
             /\ fault' = NoFault
             /\ \A i \in 1..call'.written :
                   Get(db_', call'.cf, call'.keys[i]) = call'.data[i]
             /\ LET r == rollback_top(db_', savepoints_', assets_handle_, tokens_handle_')
                IN  r.err = no_savepoint /\ r.db = db_']_vars

\* a put_tokens that wrote its two keys outside of any savepoint
C16_Witness ==
    /\ call.op = "put_tokens"
    /\ call.written = 2
    /\ err = OK
    /\ savepoints_ = <<>>
    /\ \A i \in 1..2 : Get(db_, call.cf, call.keys[i]) = call.data[i]

(***************************************************************************)
(* C17: after a successful put_token(type, op, prefix, key, v)             *)
(* exists_token is true and read_token returns exactly v, and this stays   *)
(* so over every call that is not a write or a rollback touching the key;  *)
(* after a later update read_token returns the value written last.         *)
(***************************************************************************)
\* the call c wrote the key of the token family or rolled it back
StepWrites(c, k) ==
    \/ IsPut(c) /\ c.cf = TokensCF /\ \E i \in 1..c.written : c.keys[i] = k
    \/ IsRollback(c) /\ <<TokensCF, k>> \in c.keys

C17_ReadAfterWrite ==
    [][/\ (call'.op = "put_token" /\ err' = OK)
            => LET k == call'.keys[1]
               IN  /\ exists_token(db_', k[1], k[2])
                   /\ read_token(db_', k[1], k[2], FALSE)
                          = [ret |-> TRUE, out |-> call'.data[1], err |-> OK]
       /\ \A prefix \in TokenPrefixes, key \in Names :
             ~StepWrites(call', db_token_key(prefix, key))
                 => /\ exists_token(db_', prefix, key) = exists_token(db_, prefix, key)
                    /\ read_token(db_', prefix, key, FALSE) = read_token(db_, prefix, key, FALSE)
       /\ call'.op = "read_token"
            => LET r == read_token(db_, call'.key[1], call'.key[2], FALSE)
               IN  call'.ret = r.ret /\ call'.out = r.out
       /\ call'.op = "exists_token"
            => call'.ret = exists_token(db_, call'.key[1], call'.key[2])]_vars

\* a read that returns the value of an update made after the snapshot of the
\* top savepoint, which holds the value of the first put
C17_Witness ==
    /\ call.op = "read_token"
    /\ call.ret
    /\ call.out = "x"
    /\ puts = 2
    /\ err = OK
    /\ savepoints_ # <<>>
    /\ IsRuntime(Back(savepoints_))
    /\ Get(Back(savepoints_).group.rb_snapshot, TokensCF, call.key) = ""

(***************************************************************************)
(* abi_serializer (libraries/chain/contracts/abi_serializer.cpp).  A type  *)
(* name is a string: here the sequence of its base name and the decorators *)
(* "[]" and "?" that follow it; the empty type name is the empty sequence. *)
(***************************************************************************)
type_name(name) == <<name>>
NoType == <<>>
Array(type) == Append(type, "[]")
Optional(type) == Append(type, "?")

built_in_types == {"uint8", "uint16"}

is_builtin_type(type) == Len(type) = 1 /\ type[1] \in built_in_types
is_array(type) == Len(type) >= 2 /\ type[Len(type)] = "[]"
is_optional(type) == Len(type) >= 2 /\ type[Len(type)] = "?"

fundamental_type(type) ==
    IF is_array(type) \/ is_optional(type)
    THEN SubSeq(type, 1, Len(type) - 1)
    ELSE type

type_def(new_type_name, type) == [new_type_name |-> new_type_name, type |-> type]
field_def(name, type) == [name |-> name, type |-> type]
struct_def(name, base, fields) == [name |-> name, base |-> base, fields |-> fields]
action_def(name, type) == [name |-> name, type |-> type]
abi_def(types, sts, acts) == [types |-> types, structs |-> sts, actions |-> acts]

\* std::map: m[k] = v
MapPut(m, k, v) == [x \in DOMAIN m \cup {k} |-> IF x = k THEN v ELSE m[x]]
EmptyMap == <<>>

\* a recursion that comes back to a type name it has already been called
\* with never returns: it ends the process when the stack is used up
StackOverflow == "stack_overflow"

RECURSIVE resolve_type_from(_, _, _)
resolve_type_from(tds, type, seen) ==
    IF type \notin DOMAIN tds
    THEN [ret |-> type, fault |-> NoFault]
    ELSE IF type \in seen
    THEN [ret |-> type, fault |-> StackOverflow]
    ELSE resolve_type_from(tds, tds[type], seen \cup {type})

resolve_type(tds, type) == resolve_type_from(tds, type, {})

RECURSIVE is_type_from(_, _, _, _)
is_type_from(tds, sts, rtype, seen) ==
    LET type == fundamental_type(rtype)
    IN  IF is_builtin_type(type)
        THEN [ret |-> TRUE, fault |-> NoFault]
        ELSE IF type \in DOMAIN tds
        THEN IF type \in seen
             THEN [ret |-> FALSE, fault |-> StackOverflow]
             ELSE is_type_from(tds, sts, tds[type], seen \cup {type})
        ELSE [ret |-> type \in DOMAIN sts, fault |-> NoFault]

is_type(tds, sts, rtype) == is_type_from(tds, sts, rtype, {})

is_struct(tds, sts, type) ==
    LET r == resolve_type(tds, type)
    IN  [ret |-> r.fault = NoFault /\ r.ret \in DOMAIN sts, fault |-> r.fault]

NoStruct == struct_def(NoType, NoType, <<>>)

\* the FC_ASSERTs of the serializer, by their message
invalid_type == "assert_exception: invalid type"
duplicate_names == "assert_exception: duplicates"
unknown_struct == "assert_exception: Unknown struct"
circular_reference == "assert_exception: Circular reference"

get_struct(tds, sts, type) ==
    LET r == resolve_type(tds, type)
    IN  IF r.fault # NoFault
        THEN [st |-> NoStruct, err |-> OK, fault |-> r.fault]
        ELSE IF r.ret \notin DOMAIN sts
        THEN [st |-> NoStruct, err |-> unknown_struct, fault |-> NoFault]
        ELSE [st |-> sts[r.ret], err |-> OK, fault |-> NoFault]

(***************************************************************************)
(* set_abi: the structs first, then the typedefs one by one, each after a  *)
(* check of its target against what is installed so far, then the actions  *)
(* and the checks for duplicates.  An exception leaves what was installed  *)
(* up to it.                                                               *)
(***************************************************************************)
RECURSIVE set_abi_structs(_, _)
set_abi_structs(sts, defs) ==
    IF defs = <<>> THEN sts
    ELSE set_abi_structs(MapPut(sts, Head(defs).name, Head(defs)), Tail(defs))

RECURSIVE set_abi_types(_, _, _)
set_abi_types(tds, sts, defs) ==
    IF defs = <<>> THEN [typedefs |-> tds, err |-> OK, fault |-> NoFault]
    ELSE LET td == Head(defs)
             t == is_type(tds, sts, td.type)
         IN  IF t.fault # NoFault
             THEN [typedefs |-> tds, err |-> OK, fault |-> t.fault]
             ELSE IF ~t.ret
             THEN [typedefs |-> tds, err |-> invalid_type, fault |-> NoFault]
             ELSE set_abi_types(MapPut(tds, td.new_type_name, td.type), sts, Tail(defs))

RECURSIVE set_abi_actions(_, _)
set_abi_actions(acts, defs) ==
    IF defs = <<>> THEN acts
    ELSE set_abi_actions(MapPut(acts, Head(defs).name, Head(defs).type), Tail(defs))

set_abi(abi) ==
    LET sts == set_abi_structs(EmptyMap, abi.structs)
        t == set_abi_types(EmptyMap, sts, abi.types)
        acts == set_abi_actions(EmptyMap, abi.actions)
    IN  IF t.fault # NoFault \/ t.err # OK
        THEN [typedefs |-> t.typedefs, structs |-> sts, actions |-> EmptyMap,
              err |-> t.err, fault |-> t.fault]
        ELSE [typedefs |-> t.typedefs, structs |-> sts, actions |-> acts,
              err |-> IF /\ Cardinality(DOMAIN t.typedefs) = Len(abi.types)
                         /\ Cardinality(DOMAIN sts) = Len(abi.structs)
                         /\ Cardinality(DOMAIN acts) = Len(abi.actions)
                      THEN OK ELSE duplicate_names,
              fault |-> NoFault]

(***************************************************************************)
(* validate: four loops over the maps, each in the order of its keys; the  *)
(* first check that fails ends it.                                         *)
(***************************************************************************)
\* the order of std::string on the names in use
SymbolOrder == <<"?", "A", "B", "P", "Q", "R", "S", "U", "W", "X", "Y", "[]",
                 "act1", "act2", "act3", "uint16", "uint8">>
Rank(sym) == CHOOSE i \in 1..Len(SymbolOrder) : SymbolOrder[i] = sym

RECURSIVE TypeLess(_, _)
TypeLess(a, b) ==
    IF a = <<>> THEN b # <<>>
    ELSE IF b = <<>> THEN FALSE
    ELSE IF Head(a) = Head(b) THEN TypeLess(Tail(a), Tail(b))
    ELSE Rank(Head(a)) < Rank(Head(b))

RECURSIVE SortedKeys(_)
SortedKeys(keys) ==
    IF keys = {} THEN <<>>
    ELSE LET first == CHOOSE k \in keys : \A o \in keys \ {k} : TypeLess(k, o)
         IN  <<first>> \o SortedKeys(keys \ {first})

Passed == [err |-> OK, fault |-> NoFault]
Passes(r) == r.err = OK /\ r.fault = NoFault

RECURSIVE FirstFailure(_)
FirstFailure(results) ==
    IF results = <<>> THEN Passed
    ELSE IF ~Passes(Head(results)) THEN Head(results)
    ELSE FirstFailure(Tail(results))

\* the walk along the typedefs from cur with the names seen so far
RECURSIVE typedef_circular(_, _, _)
typedef_circular(tds, cur, seen) ==
    IF cur \notin DOMAIN tds THEN FALSE
    ELSE IF tds[cur] \in seen THEN TRUE
    ELSE typedef_circular(tds, tds[cur], seen \cup {tds[cur]})

validate_typedef_chain(tds, t) ==
    [err |-> IF typedef_circular(tds, tds[t], {t, tds[t]}) THEN circular_reference ELSE OK,
     fault |-> NoFault]

validate_is_type(tds, sts, type) ==
    LET r == is_type(tds, sts, type)
    IN  [err |-> IF r.fault = NoFault /\ ~r.ret THEN invalid_type ELSE OK,
         fault |-> r.fault]

RECURSIVE validate_base_chain(_, _, _, _)
validate_base_chain(tds, sts, current, seen) ==
    IF current.base = NoType THEN Passed
    ELSE LET g == get_struct(tds, sts, current.base)
         IN  IF g.fault # NoFault \/ g.err # OK
             THEN [err |-> g.err, fault |-> g.fault]
             ELSE IF g.st.name \in seen
             THEN [err |-> circular_reference, fault |-> NoFault]
             ELSE validate_base_chain(tds, sts, g.st, seen \cup {g.st.name})

validate_struct(tds, sts, st) ==
    FirstFailure(<<validate_base_chain(tds, sts, st, {st.name})>>
                 \o [i \in 1..Len(st.fields) |->
                        validate_is_type(tds, sts, st.fields[i].type)])

validate(tds, sts, acts) ==
    LET tkeys == SortedKeys(DOMAIN tds)
        skeys == SortedKeys(DOMAIN sts)
        akeys == SortedKeys(DOMAIN acts)
    IN  FirstFailure(
            [i \in 1..Len(tkeys) |-> validate_typedef_chain(tds, tkeys[i])]
            \o [i \in 1..Len(tkeys) |-> validate_is_type(tds, sts, tds[tkeys[i]])]
            \o [i \in 1..Len(skeys) |-> validate_struct(tds, sts, sts[skeys[i]])]
            \o [i \in 1..Len(akeys) |-> validate_is_type(tds, sts, acts[akeys[i]])])

(***************************************************************************)
(* Variants and bytes.  A variant is null, an integer, an array of         *)
(* variants or an object: the entries of a mutable_variant_object in the   *)
(* order they were added.                                                  *)
(***************************************************************************)
null_variant == [k |-> "null", i |-> 0, v |-> <<>>]
int_variant(n) == [k |-> "int", i |-> n, v |-> <<>>]
array_variant(vars_) == [k |-> "array", i |-> 0, v |-> vars_]
object_variant(entries) == [k |-> "object", i |-> 0, v |-> entries]
entry(name, value) == [name |-> name, value |-> value]

is_null(var) == var.k = "null"
is_object(var) == var.k = "object"
contains(vo, name) == \E n \in 1..Len(vo) : vo[n].name = name
field_of(vo, name) == vo[CHOOSE n \in 1..Len(vo) : vo[n].name = name].value

bad_cast_exception == "bad_cast_exception"
out_of_range_exception == "out_of_range_exception"
missing_field == "fc::exception: Missing field in variant object"

\* what a pack leaves: the bytes written and how it ended
Packed(bytes) == [bytes |-> bytes, err |-> OK, fault |-> NoFault]
PackFailed(e, f) == [bytes |-> <<>>, err |-> e, fault |-> f]
\* what an unpack leaves: the variant, the rest of the stream, how it ended
Unpacked(var, rest) == [var |-> var, rest |-> rest, err |-> OK, fault |-> NoFault]
UnpackFailed(e, f) == [var |-> null_variant, rest |-> <<>>, err |-> e, fault |-> f]

\* fc::raw::pack of the integer types: little endian, in the width of the type;
\* var.as<T>() of the null variant is 0
int_size(type) == IF type = type_name("uint8") THEN 1 ELSE 2
raw_pack(type, var) ==
    IF var.k \notin {"int", "null"} THEN PackFailed(bad_cast_exception, NoFault)
    ELSE IF int_size(type) = 1 THEN Packed(<<var.i % 256>>)
    ELSE Packed(<<var.i % 256, (var.i \div 256) % 256>>)

raw_unpack(type, stream_) ==
    IF Len(stream_) < int_size(type) THEN UnpackFailed(out_of_range_exception, NoFault)
    ELSE IF int_size(type) = 1
    THEN Unpacked(int_variant(stream_[1]), Tail(stream_))
    ELSE Unpacked(int_variant(stream_[1] + 256 * stream_[2]), Tail(Tail(stream_)))

\* fc::unsigned_int of a size below 128 is one byte
pack_size(n) == <<n>>

RECURSIVE pack_vector(_, _)
pack_vector(type, vars_) ==
    IF vars_ = <<>> THEN Packed(<<>>)
    ELSE LET h == raw_pack(type, Head(vars_))
             t == pack_vector(type, Tail(vars_))
         IN  IF h.err # OK THEN h
             ELSE IF t.err # OK THEN t
             ELSE Packed(h.bytes \o t.bytes)

RECURSIVE unpack_vector(_, _, _)
unpack_vector(type, stream_, n) ==
    IF n = 0 THEN Unpacked(array_variant(<<>>), stream_)
    ELSE LET h == raw_unpack(type, stream_)
             t == unpack_vector(type, h.rest, n - 1)
         IN  IF h.err # OK THEN h
             ELSE IF t.err # OK THEN t
             ELSE Unpacked(array_variant(<<h.var>> \o t.var.v), t.rest)

\* the pair of pack_unpack<T>: vector<T>, optional<T> or T
pack_function(type, var, array, optional) ==
    IF array
    THEN IF var.k # "array" THEN PackFailed(bad_cast_exception, NoFault)
         ELSE LET e == pack_vector(type, var.v)
              IN  IF e.err # OK THEN e ELSE Packed(pack_size(Len(var.v)) \o e.bytes)
    ELSE IF optional
    THEN IF is_null(var) THEN Packed(<<0>>)
         ELSE LET e == raw_pack(type, var)
              IN  IF e.err # OK THEN e ELSE Packed(<<1>> \o e.bytes)
    ELSE raw_pack(type, var)

unpack_function(type, stream_, array, optional) ==
    IF array
    THEN IF stream_ = <<>> THEN UnpackFailed(out_of_range_exception, NoFault)
         ELSE unpack_vector(type, Tail(stream_), Head(stream_))
    ELSE IF optional
    THEN IF stream_ = <<>> THEN UnpackFailed(out_of_range_exception, NoFault)
         ELSE IF Head(stream_) = 0 THEN Unpacked(null_variant, Tail(stream_))
         ELSE raw_unpack(type, Tail(stream_))
    ELSE raw_unpack(type, stream_)

(***************************************************************************)
(* variant_to_binary into a datastream                                     *)
(***************************************************************************)
RECURSIVE variant_to_binary_ds(_, _, _, _)
RECURSIVE pack_array(_, _, _, _)
RECURSIVE pack_object_fields(_, _, _, _)
RECURSIVE pack_array_fields(_, _, _, _, _)

\* one write after another: the second is not made when the first throws
PackThen(a, b) ==
    IF a.fault # NoFault \/ a.err # OK THEN a
    ELSE IF b.fault # NoFault \/ b.err # OK THEN b
    ELSE Packed(a.bytes \o b.bytes)

pack_array(tds, sts, type, vars_) ==
    IF vars_ = <<>> THEN Packed(<<>>)
    ELSE PackThen(variant_to_binary_ds(tds, sts, type, Head(vars_)),
                  pack_array(tds, sts, type, Tail(vars_)))

\* mutant: a field that is missing is written as the null variant
pack_object_fields_defaulted(tds, sts, fields, vo) ==
    IF fields = <<>> THEN Packed(<<>>)
    ELSE PackThen(variant_to_binary_ds(tds, sts, Head(fields).type,
                                       IF contains(vo, Head(fields).name)
                                       THEN field_of(vo, Head(fields).name)
                                       ELSE null_variant),
                  pack_object_fields(tds, sts, Tail(fields), vo))

pack_object_fields(tds, sts, fields, vo) ==
    IF fields = <<>> THEN Packed(<<>>)
    ELSE LET field == Head(fields)
         IN  IF contains(vo, field.name)
             THEN PackThen(variant_to_binary_ds(tds, sts, field.type, field_of(vo, field.name)),
                           pack_object_fields(tds, sts, Tail(fields), vo))
             ELSE PackThen(variant_to_binary_ds(tds, sts, field.type, null_variant),
                           PackFailed(missing_field, NoFault))

pack_array_fields(tds, sts, fields, va, n) ==
    IF fields = <<>> THEN Packed(<<>>)
    ELSE PackThen(variant_to_binary_ds(tds, sts, Head(fields).type,
                                       IF Len(va) > n THEN va[n + 1] ELSE null_variant),
                  pack_array_fields(tds, sts, Tail(fields), va, n + 1))

variant_to_binary_ds(tds, sts, type, var) ==
    LET r == resolve_type(tds, type)
        rtype == r.ret
    IN  IF r.fault # NoFault THEN PackFailed(OK, r.fault)
        ELSE IF is_builtin_type(fundamental_type(rtype))
        THEN pack_function(fundamental_type(rtype), var, is_array(rtype), is_optional(rtype))
        ELSE IF is_array(rtype)
        THEN IF var.k # "array" THEN PackFailed(bad_cast_exception, NoFault)
             ELSE PackThen(Packed(pack_size(Len(var.v))),
                           pack_array(tds, sts, fundamental_type(rtype), var.v))
        ELSE LET g == get_struct(tds, sts, rtype)
                 st == g.st
             IN  IF g.fault # NoFault \/ g.err # OK THEN PackFailed(g.err, g.fault)
                 ELSE IF is_object(var)
                 THEN LET b == resolve_type(tds, st.base)
                      IN  IF st.base # NoType /\ b.fault # NoFault
                          THEN PackFailed(OK, b.fault)
                          ELSE PackThen(IF st.base # NoType
                                        THEN variant_to_binary_ds(tds, sts, b.ret, var)
                                        ELSE Packed(<<>>),
                                        pack_object_fields(tds, sts, st.fields, var.v))
                 ELSE IF var.k = "array"
                 THEN IF st.base # NoType THEN PackFailed(assert_exception, NoFault)
                      ELSE IF Len(var.v) > 0
                      THEN pack_array_fields(tds, sts, st.fields, var.v, 0)
                      ELSE Packed(<<>>)
                 ELSE Packed(<<>>)

\* a string variant holds its characters, here hexadecimal digits by value
string_variant(digits) == [k |-> "string", i |-> 0, v |-> digits]

RECURSIVE from_hex(_)
from_hex(digits) ==
    IF digits = <<>> THEN <<>>
    ELSE <<16 * digits[1] + digits[2]>> \o from_hex(Tail(Tail(digits)))

\* var.as<bytes>(): the bytes a string of hexadecimal digits stands for
as_bytes(var) ==
    IF var.k # "string" THEN PackFailed(bad_cast_exception, NoFault)
    ELSE IF Len(var.v) % 2 # 0 THEN PackFailed(assert_exception, NoFault)
    ELSE Packed(from_hex(var.v))

variant_to_binary(tds, sts, type, var) ==
    LET t == is_type(tds, sts, type)
    IN  IF t.fault # NoFault THEN PackFailed(OK, t.fault)
        ELSE IF ~t.ret THEN as_bytes(var)
        ELSE variant_to_binary_ds(tds, sts, type, var)

(***************************************************************************)
(* binary_to_variant from a datastream                                     *)
(***************************************************************************)
RECURSIVE binary_to_variant_ds(_, _, _, _)
RECURSIVE binary_to_variant_obj(_, _, _, _, _)
RECURSIVE unpack_array(_, _, _, _, _)
RECURSIVE unpack_fields(_, _, _, _, _)

Failed(r) == r.fault # NoFault \/ r.err # OK

unpack_array(tds, sts, type, stream_, n) ==
    IF n = 0 THEN Unpacked(array_variant(<<>>), stream_)
    ELSE LET h == binary_to_variant_ds(tds, sts, type, stream_)
         IN  IF Failed(h) THEN h
             ELSE LET t == unpack_array(tds, sts, type, h.rest, n - 1)
                  IN  IF Failed(t) THEN t
                      ELSE Unpacked(array_variant(<<h.var>> \o t.var.v), t.rest)

\* obj(field.name, value): the entry of that name is set, or added at the end
set_entry(obj, name, value) ==
    IF contains(obj, name)
    THEN [n \in 1..Len(obj) |-> IF obj[n].name = name THEN entry(name, value) ELSE obj[n]]
    ELSE Append(obj, entry(name, value))

unpack_fields(tds, sts, fields, stream_, obj) ==
    IF fields = <<>> THEN Unpacked(object_variant(obj), stream_)
    ELSE LET field == Head(fields)
             r == resolve_type(tds, field.type)
         IN  IF r.fault # NoFault THEN UnpackFailed(OK, r.fault)
             ELSE LET h == binary_to_variant_ds(tds, sts, r.ret, stream_)
                  IN  IF Failed(h) THEN h
                      ELSE unpack_fields(tds, sts, Tail(fields), h.rest,
                                         set_entry(obj, field.name, h.var))

\* mutant: the fields of the struct are read before those of its base
binary_to_variant_obj_base_last(tds, sts, type, stream_, obj) ==
    LET g == get_struct(tds, sts, type)
        st == g.st
    IN  IF Failed(g) THEN UnpackFailed(g.err, g.fault)
        ELSE IF st.base # NoType
        THEN LET r == resolve_type(tds, st.base)
                 own == unpack_fields(tds, sts, st.fields, stream_, obj)
             IN  IF r.fault # NoFault THEN UnpackFailed(OK, r.fault)
                 ELSE IF Failed(own) THEN own
                 ELSE binary_to_variant_obj(tds, sts, r.ret, own.rest, own.var.v)
        ELSE unpack_fields(tds, sts, st.fields, stream_, obj)

binary_to_variant_obj(tds, sts, type, stream_, obj) ==
    LET g == get_struct(tds, sts, type)
        st == g.st
    IN  IF Failed(g) THEN UnpackFailed(g.err, g.fault)
        ELSE IF st.base # NoType
        THEN LET r == resolve_type(tds, st.base)
             IN  IF r.fault # NoFault THEN UnpackFailed(OK, r.fault)
                 ELSE LET b == binary_to_variant_obj(tds, sts, r.ret, stream_, obj)
                      IN  IF Failed(b) THEN b
                          ELSE unpack_fields(tds, sts, st.fields, b.rest, b.var.v)
        ELSE unpack_fields(tds, sts, st.fields, stream_, obj)

binary_to_variant_ds(tds, sts, type, stream_) ==
    LET r == resolve_type(tds, type)
        rtype == r.ret
        ftype == fundamental_type(rtype)
    IN  IF r.fault # NoFault THEN UnpackFailed(OK, r.fault)
        ELSE IF is_builtin_type(ftype)
        THEN unpack_function(ftype, stream_, is_array(rtype), is_optional(rtype))
        ELSE IF is_array(rtype)
        THEN IF stream_ = <<>> THEN UnpackFailed(out_of_range_exception, NoFault)
             ELSE unpack_array(tds, sts, ftype, Tail(stream_), Head(stream_))
        ELSE IF is_optional(rtype)
        THEN IF stream_ = <<>> THEN UnpackFailed(out_of_range_exception, NoFault)
             ELSE IF Head(stream_) # 0
             THEN binary_to_variant_ds(tds, sts, ftype, Tail(stream_))
             ELSE Unpacked(null_variant, Tail(stream_))
        ELSE binary_to_variant_obj(tds, sts, rtype, stream_, <<>>)

binary_to_variant(tds, sts, type, binary) == binary_to_variant_ds(tds, sts, type, binary)

(***************************************************************************)
(* The values admissible to a type: integers of its width, arrays of       *)
(* admissible values, null or an admissible value for an optional, and for *)
(* a struct the object of the fields of its bases and its own, in order.   *)
(***************************************************************************)
MaxArrayLen == 2
MaxDepth == 3

IntValues(type) == IF type = type_name("uint8") THEN {0, 255} ELSE {0, 258}
SeqsUpTo(S, n) == UNION {[1..m -> S] : m \in 0..n}

RECURSIVE Admissible(_, _, _, _)
RECURSIVE AdmissibleEntries(_, _, _, _)
RECURSIVE AdmissibleFields(_, _, _, _)

AdmissibleFields(tds, sts, fields, depth) ==
    IF fields = <<>> THEN {<<>>}
    ELSE {<<entry(Head(fields).name, value)>> \o rest :
              value \in Admissible(tds, sts, Head(fields).type, depth),
              rest \in AdmissibleFields(tds, sts, Tail(fields), depth)}

AdmissibleEntries(tds, sts, st, depth) ==
    LET own == AdmissibleFields(tds, sts, st.fields, depth)
        b == get_struct(tds, sts, st.base)
    IN  IF st.base = NoType THEN own
        ELSE IF Failed(b) \/ depth = 0 THEN {}
        ELSE {inherited \o es : inherited \in AdmissibleEntries(tds, sts, b.st, depth - 1),
                                es \in own}

Admissible(tds, sts, type, depth) ==
    LET r == resolve_type(tds, type)
        rtype == r.ret
        ftype == fundamental_type(rtype)
        ints == {int_variant(n) : n \in IntValues(ftype)}
    IN  IF r.fault # NoFault THEN {}
        ELSE IF is_builtin_type(ftype)
        THEN IF is_array(rtype) THEN {array_variant(a) : a \in SeqsUpTo(ints, MaxArrayLen)}
             ELSE IF is_optional(rtype) THEN {null_variant} \cup ints
             ELSE ints
        ELSE IF is_array(rtype)
        THEN {array_variant(a) : a \in SeqsUpTo(Admissible(tds, sts, ftype, depth), MaxArrayLen)}
        ELSE IF is_optional(rtype)
        THEN {null_variant} \cup Admissible(tds, sts, ftype, depth)
        ELSE IF rtype \in DOMAIN sts /\ depth > 0
        THEN {object_variant(es) : es \in AdmissibleEntries(tds, sts, sts[rtype], depth - 1)}
        ELSE {}

(***************************************************************************)
(* The ABIs handed to set_abi                                              *)
(***************************************************************************)
T(name) == type_name(name)

\* structs with a base, fields of built-in, typedef, struct and array types
AbiTransfer ==
    abi_def(<<type_def(T("U"), T("uint8"))>>,
            <<struct_def(T("P"), NoType, <<field_def("x", T("uint8"))>>),
              struct_def(T("Q"), T("P"), <<field_def("y", T("U")),
                                           field_def("zs", Array(T("uint16"))),
                                           field_def("o", Optional(T("uint8")))>>),
              struct_def(T("R"), NoType, <<field_def("ps", Array(T("P"))),
                                           field_def("p", T("P"))>>)>>,
            <<action_def(T("act1"), T("Q")), action_def(T("act2"), T("R"))>>)

\* a field that is an optional struct
AbiOptionalStruct ==
    abi_def(<<>>,
            <<struct_def(T("P"), NoType, <<field_def("x", T("uint8"))>>),
              struct_def(T("W"), NoType, <<field_def("g", Optional(T("P")))>>)>>,
            <<action_def(T("act3"), T("W"))>>)

\* a typedef named as a struct, to its own name
AbiSelfTypedef ==
    abi_def(<<type_def(T("S"), T("S"))>>,
            <<struct_def(T("S"), NoType, <<>>)>>,
            <<>>)

\* two typedefs to each other, one of them to the array
AbiArrayCycle ==
    abi_def(<<type_def(T("A"), Array(T("B"))), type_def(T("B"), T("A"))>>,
            <<struct_def(T("B"), NoType, <<>>)>>,
            <<>>)

\* two typedefs to each other
AbiTypedefCycle ==
    abi_def(<<type_def(T("A"), T("B")), type_def(T("B"), T("A"))>>,
            <<struct_def(T("B"), NoType, <<>>)>>,
            <<>>)

\* two structs, each the base of the other
AbiBaseCycle ==
    abi_def(<<>>,
            <<struct_def(T("X"), T("Y"), <<>>), struct_def(T("Y"), T("X"), <<>>)>>,
            <<>>)

\* a typedef to a type that is not known, a field of such a type, a typedef twice
AbiUnknownTarget == abi_def(<<type_def(T("A"), T("Y"))>>, <<>>, <<>>)
AbiUnknownField ==
    abi_def(<<>>, <<struct_def(T("S"), NoType, <<field_def("x", T("Y"))>>)>>,
            <<action_def(T("act1"), T("S"))>>)
AbiDuplicate ==
    abi_def(<<type_def(T("U"), T("uint8")), type_def(T("U"), T("uint16"))>>, <<>>, <<>>)
AbiEmpty == abi_def(<<>>, <<>>, <<>>)

Abis == {AbiTransfer, AbiOptionalStruct, AbiSelfTypedef, AbiArrayCycle, AbiTypedefCycle,
         AbiBaseCycle, AbiUnknownTarget, AbiUnknownField, AbiDuplicate, AbiEmpty}

\* the type names asked about
QueryTypes == {T("A"), T("B"), T("S"), T("U"), T("Q"), T("X"), T("uint8"),
               Array(T("A")), Optional(T("S"))}

(***************************************************************************)
(* The calls on the serializer.  ser holds the call made last and what it  *)
(* returned; a call that does not return ends the process.                 *)
(***************************************************************************)
database == <<db_, opened, dir_exists, tokens_handle_, savepoints_, live_snapshots,
              stream, file, puts, call, err, fault, clients>>

Returned(op, e, f) ==
    [op |-> op, err |-> e, fault |-> f, type |-> NoType, ret |-> FALSE,
     var |-> null_variant, bytes |-> <<>>, src |-> null_variant, name |-> NoType]

set_abi_call(abi) ==
    /\ ser.fault = NoFault
    /\ LET r == set_abi(abi)
       IN  /\ typedefs' = r.typedefs
           /\ structs' = r.structs
           /\ actions_' = r.actions
           /\ ser' = Returned("set_abi", r.err, r.fault)

validate_call ==
    /\ ser.fault = NoFault
    /\ LET r == validate(typedefs, structs, actions_)
       IN  ser' = Returned("validate", r.err, r.fault)
    /\ UNCHANGED <<typedefs, structs, actions_>>

is_type_call(type) ==
    /\ ser.fault = NoFault
    /\ LET r == is_type(typedefs, structs, type)
       IN  ser' = [Returned("is_type", OK, r.fault) EXCEPT !.type = type, !.ret = r.ret]
    /\ UNCHANGED <<typedefs, structs, actions_>>

resolve_type_call(type) ==
    /\ ser.fault = NoFault
    /\ LET r == resolve_type(typedefs, type)
       IN  ser' = [Returned("resolve_type", OK, r.fault) EXCEPT !.type = r.ret]
    /\ UNCHANGED <<typedefs, structs, actions_>>

is_struct_call(type) ==
    /\ ser.fault = NoFault
    /\ LET r == is_struct(typedefs, structs, type)
       IN  ser' = [Returned("is_struct", OK, r.fault) EXCEPT !.type = type, !.ret = r.ret]
    /\ UNCHANGED <<typedefs, structs, actions_>>

get_action_type(acts, action) == IF action \in DOMAIN acts THEN acts[action] ELSE NoType

variant_to_binary_call(action, var) ==
    /\ ser.fault = NoFault
    /\ LET type == get_action_type(actions_, action)
           r == variant_to_binary(typedefs, structs, type, var)
       IN  ser' = [Returned("variant_to_binary", r.err, r.fault)
                       EXCEPT !.type = type, !.var = var, !.bytes = r.bytes]
    /\ UNCHANGED <<typedefs, structs, actions_>>

\* the bytes of the last variant_to_binary, read back in its type
binary_to_variant_call ==
    /\ ser.fault = NoFault
    /\ ser.op = "variant_to_binary"
    /\ ser.err = OK
    /\ LET r == binary_to_variant(typedefs, structs, ser.type, ser.bytes)
       IN  ser' = [Returned("binary_to_variant", r.err, r.fault)
                       EXCEPT !.type = ser.type, !.var = r.var, !.bytes = ser.bytes,
                              !.src = ser.var]
    /\ UNCHANGED <<typedefs, structs, actions_>>

NextAbi ==
    \/ \E abi \in Abis : set_abi_call(abi) /\ UNCHANGED database
    \/ validate_call /\ UNCHANGED database
    \/ \E type \in QueryTypes : is_type_call(type) /\ UNCHANGED database
    \/ \E type \in QueryTypes : resolve_type_call(type) /\ UNCHANGED database
    \/ \E type \in QueryTypes : is_struct_call(type) /\ UNCHANGED database
    \/ \E action \in DOMAIN actions_ :
          \E var \in Admissible(typedefs, structs, actions_[action], MaxDepth) :
              variant_to_binary_call(action, var) /\ UNCHANGED database
    \/ binary_to_variant_call /\ UNCHANGED database

SpecAbi == Init /\ [][NextAbi]_vars

(***************************************************************************)
(* The graph of an environment: a typedef points at the name its target    *)
(* is built on, a struct at its base.                                      *)
(***************************************************************************)
StripAll(type) == IF type = NoType THEN NoType ELSE type_name(type[1])

TypeEdges(tds, sts) ==
    {<<a, StripAll(tds[a])>> : a \in DOMAIN tds}
    \cup {<<st, StripAll(sts[st].base)>> : st \in {x \in DOMAIN sts : sts[x].base # NoType}}

Successors(edges, n) == {e[2] : e \in {x \in edges : x[1] = n}}

RECURSIVE Reachable(_, _, _)
Reachable(edges, todo, seen) ==
    IF todo = {} THEN seen
    ELSE LET n == CHOOSE x \in todo : TRUE
             new == Successors(edges, n) \ seen
         IN  Reachable(edges, (todo \ {n}) \cup new, seen \cup new)

Cyclic(tds, sts) ==
    \E n \in DOMAIN tds \cup DOMAIN sts : n \in Reachable(TypeEdges(tds, sts), {n}, {})

Known(tds, sts, type) ==
    \/ is_builtin_type(StripAll(type))
    \/ StripAll(type) \in DOMAIN tds \cup DOMAIN sts

AllKnown(tds, sts, acts) ==
    /\ \A a \in DOMAIN tds : Known(tds, sts, tds[a])
    /\ \A st \in DOMAIN sts :
          /\ sts[st].base # NoType => Known(tds, sts, sts[st].base)
          /\ \A n \in 1..Len(sts[st].fields) : Known(tds, sts, sts[st].fields[n].type)
    /\ \A a \in DOMAIN acts : Known(tds, sts, acts[a])

\* C19: validate() terminates for every environment; it returns normally when
\* the typedefs and the struct bases are acyclic and every referenced type is
\* known, and it reports a circular reference for every environment with a
\* cycle through typedefs, decorated targets included, or through struct bases.
C19_ValidateTerminates ==
    ser.op = "validate" =>
        /\ ser.fault = NoFault
        /\ Cyclic(typedefs, structs) => ser.err = circular_reference
        /\ ~Cyclic(typedefs, structs) /\ AllKnown(typedefs, structs, actions_) => ser.err = OK

\* C20: once set_abi has returned successfully, resolve_type(t), is_type(t)
\* and is_struct(t) terminate for every type name t.
C20_AcyclicAfterSetAbi ==
    (ser.op = "set_abi" /\ ser.err = OK /\ ser.fault = NoFault) =>
        \A t \in QueryTypes :
            /\ resolve_type(typedefs, t).fault = NoFault
            /\ is_type(typedefs, structs, t).fault = NoFault
            /\ is_struct(typedefs, structs, t).fault = NoFault

\* the environment passes validate()
Valid == Passes(validate(typedefs, structs, actions_))

\* C18: in a valid ABI, for every action type T and every value v admissible
\* to T, variant_to_binary(T, v) returns bytes that binary_to_variant(T, .)
\* reads back as v.
C18_RoundTrip ==
    /\ (ser.op = "variant_to_binary" /\ Valid) =>
          /\ ser.err = OK
          /\ ser.fault = NoFault
          /\ LET d == binary_to_variant(typedefs, structs, ser.type, ser.bytes)
             IN  d.err = OK /\ d.fault = NoFault /\ d.var = ser.var
    /\ (ser.op = "binary_to_variant" /\ Valid) =>
          ser.err = OK /\ ser.fault = NoFault /\ ser.var = ser.src

(***************************************************************************)
(* The conversions called with a type name and a value of the caller's     *)
(* choice, and the lookup of the type of an action.                        *)
(***************************************************************************)
AbiCodec ==
    abi_def(<<type_def(T("U"), T("uint8"))>>,
            <<struct_def(T("P"), NoType, <<field_def("x", T("uint8"))>>),
              struct_def(T("Q"), T("P"), <<field_def("y", T("U")),
                                           field_def("o", Optional(T("uint8")))>>),
              struct_def(T("R"), NoType, <<field_def("ps", Array(T("P"))),
                                           field_def("p", T("P"))>>)>>,
            <<action_def(T("act1"), T("Q")), action_def(T("act2"), T("R"))>>)

\* a struct of the empty name
AbiUnnamed == abi_def(<<>>, <<struct_def(NoType, NoType, <<>>)>>, <<>>)

CodecAbis == {AbiCodec, AbiUnnamed, AbiEmpty}
CodecTypes == {T("Q"), T("R"), T("Y"), Array(T("Y")), Optional(T("Y")), NoType}
CodecActions == {T("act1"), T("act2"), T("act3")}
CodecBinaries == {<<>>, <<0>>, <<1>>, <<1, 0>>}

Without(vo, n) == SubSeq(vo, 1, n - 1) \o SubSeq(vo, n + 1, Len(vo))

\* the variants that var becomes when one entry of one object in it is left out
RECURSIVE Mutilated(_)
Mutilated(var) ==
    IF var.k = "object"
    THEN {object_variant(Without(var.v, n)) : n \in 1..Len(var.v)}
         \cup UNION {{object_variant([var.v EXCEPT ![n] = entry(var.v[n].name, m)]) :
                         m \in Mutilated(var.v[n].value)} : n \in 1..Len(var.v)}
    ELSE IF var.k = "array"
    THEN UNION {{array_variant([var.v EXCEPT ![n] = m]) : m \in Mutilated(var.v[n])} :
                   n \in 1..Len(var.v)}
    ELSE {}

\* variants that are no value of a struct
Strangers == {null_variant, string_variant(<<>>), string_variant(<<0, 1>>),
              string_variant(<<1>>), array_variant(<<>>), object_variant(<<>>)}

CodecValues(tds, sts, type) ==
    LET whole == Admissible(tds, sts, type, MaxDepth)
    IN  IF ~is_type(tds, sts, type).ret THEN Strangers
        ELSE whole \cup UNION {Mutilated(var) : var \in whole}

variant_to_binary_type_call(type, var) ==
    /\ ser.fault = NoFault
    /\ LET r == variant_to_binary(typedefs, structs, type, var)
       IN  ser' = [Returned("variant_to_binary", r.err, r.fault)
                       EXCEPT !.type = type, !.var = var, !.bytes = r.bytes]
    /\ UNCHANGED <<typedefs, structs, actions_>>

binary_to_variant_type_call(type, binary) ==
    /\ ser.fault = NoFault
    /\ LET r == binary_to_variant(typedefs, structs, type, binary)
       IN  ser' = [Returned("binary_to_variant", r.err, r.fault)
                       EXCEPT !.type = type, !.var = r.var, !.bytes = binary]
    /\ UNCHANGED <<typedefs, structs, actions_>>

get_action_type_call(action) ==
    /\ ser.fault = NoFault
    /\ ser' = [Returned("get_action_type", OK, NoFault)
                   EXCEPT !.type = get_action_type(actions_, action), !.name = action]
    /\ UNCHANGED <<typedefs, structs, actions_>>

NextCodec ==
    \/ \E abi \in CodecAbis : set_abi_call(abi) /\ UNCHANGED database
    \/ \E type \in CodecTypes :
          \E var \in CodecValues(typedefs, structs, type) :
              variant_to_binary_type_call(type, var) /\ UNCHANGED database
    \/ \E type \in CodecTypes, binary \in CodecBinaries :
          binary_to_variant_type_call(type, binary) /\ UNCHANGED database
    \/ \E action \in CodecActions : get_action_type_call(action) /\ UNCHANGED database

SpecCodec == Init /\ [][NextCodec]_vars

\* the fields a struct declares, those of its bases first
RECURSIVE DeclaredFields(_, _, _, _)
DeclaredFields(tds, sts, st, depth) ==
    LET b == get_struct(tds, sts, st.base)
    IN  IF st.base = NoType \/ Failed(b) \/ depth = 0 THEN st.fields
        ELSE DeclaredFields(tds, sts, b.st, depth - 1) \o st.fields

\* var is an object given for a struct type, and lacks a field the struct declares
MissingField(tds, sts, type, var) ==
    LET g == get_struct(tds, sts, type)
        fields == DeclaredFields(tds, sts, g.st, MaxDepth)
    IN  /\ is_type(tds, sts, type).ret
        /\ ~Failed(g)
        /\ is_object(var)
        /\ \E n \in 1..Len(fields) : ~contains(var.v, fields[n].name)

\* C21: encoding an object for a struct type fails with an error whenever a
\* field declared by the struct or by its base chain is absent from the
\* object; no bytes are returned for it.
C21_MissingFieldFails ==
    (ser.op = "variant_to_binary" /\ MissingField(typedefs, structs, ser.type, ser.var)) =>
        ser.err # OK /\ ser.bytes = <<>>

C21_Witness ==
    /\ ser.op = "variant_to_binary"
    /\ MissingField(typedefs, structs, ser.type, ser.var)
    /\ ser.err = missing_field
    /\ ser.type = T("Q")
    /\ ~contains(ser.var.v, "o")

\* C22: a call of variant_to_binary or binary_to_variant with a type name
\* that is_type does not know reports an error and produces no output.
C22_UnknownTypeReported ==
    (/\ ser.op \in {"variant_to_binary", "binary_to_variant"}
     /\ ~is_type(typedefs, structs, ser.type).ret) => ser.err # OK

\* C23: for an action name that is not registered, get_action_type returns
\* no type that can be used: is_type rejects it and no value is encoded with it.
C23_UnknownAction ==
    (ser.op = "get_action_type" /\ ser.name \notin DOMAIN actions_) =>
        /\ ~is_type(typedefs, structs, ser.type).ret
        /\ \A var \in CodecValues(typedefs, structs, ser.type) :
              variant_to_binary(typedefs, structs, ser.type, var).err # OK

(***************************************************************************)
(* The stack rebuilt from the stream.                                      *)
(***************************************************************************)
Seqs(sps) == [i \in 1..Len(sps) |-> sps[i].seq]

\* C24: a persist that completes writes one group for each savepoint of the
\* stack, in the order of the stack and with its seq; a load of a clean stream
\* into an empty stack leaves exactly these savepoints, in that order, with
\* these seqs and all of them persistent; a savepoint is runtime only when
\* add_savepoint pushes it.
C24_LoadedStackPersistent ==
    [][/\ (/\ call'.op = "persist_savepoints"
           /\ fault' = NoFault
           /\ err' = OK) =>
              stream'.h.dirty_flag = 0 /\ Seqs(stream'.pds) = Seqs(savepoints_)
       /\ (/\ call'.op = "load_savepoints"
           /\ savepoints_ = <<>>
           /\ stream.h.dirty_flag = 0) =>
              /\ err' = OK
              /\ Seqs(savepoints_') = Seqs(stream.pds)
              /\ \A i \in 1..Len(savepoints_') : savepoints_'[i].type = kPersist
       /\ (\E i \in 1..Len(savepoints_') :
              /\ savepoints_'[i].type = kRuntime
              /\ (i > Len(savepoints_) \/ savepoints_[i].type # kRuntime)) =>
              call'.op = "add_savepoint"]_vars

\* two savepoints persisted, the stack emptied and the two loaded again
C24_Witness ==
    /\ call.op = "load_savepoints"
    /\ err = OK
    /\ stream.h.dirty_flag = 0
    /\ Len(stream.pds) = 2
    /\ Seqs(savepoints_) = <<1, 2>>
    /\ \A i \in 1..Len(savepoints_) : savepoints_[i].type = kPersist

(***************************************************************************)
(* The public calls of token_database that take the domain as an optional. *)
(* Their asserts end the process in a build that keeps them and do nothing *)
(* in a build that does not.                                               *)
(***************************************************************************)
assert_fails(fn, type, domain) ==
    /\ Running
    /\ ~ArgsAsserted(type, domain)
    /\ fault' = Abort
    /\ call' = [op |-> "assert", fn |-> fn, type |-> type, domain |-> domain]
    /\ UNCHANGED <<db_, opened, dir_exists, tokens_handle_, savepoints_, live_snapshots,
                   stream, file, puts, err>>

token_database_put_token(type, op, domain, key, data) ==
    \/ assert_fails("put_token", type, domain)
    \/ put_token(type, op, PrefixFor(type, domain), key, data, TRUE)

token_database_exists_token(type, domain, key) ==
    \/ assert_fails("exists_token", type, domain)
    \/ exists_token_read(PrefixFor(type, domain), key)

token_database_read_token(type, domain, key, no_throw) ==
    \/ assert_fails("read_token", type, domain)
    \/ read_token_read(PrefixFor(type, domain), key, no_throw)

OptionalDomains == {nullopt} \cup Domains

NextPrefix ==
    \/ open(FALSE) /\ UNCHANGED idle
    \/ close(FALSE, TRUE) /\ UNCHANGED idle
    \/ \E type \in RecordTypes, op \in Ops, domain \in OptionalDomains,
          key \in Names, data \in Values :
          token_database_put_token(type, op, domain, key, data) /\ UNCHANGED idle
    \/ \E type \in RecordTypes, domain \in OptionalDomains, key \in Names :
          token_database_exists_token(type, domain, key) /\ UNCHANGED idle
    \/ \E type \in RecordTypes, domain \in OptionalDomains, key \in Names :
          token_database_read_token(type, domain, key, TRUE) /\ UNCHANGED idle

SpecPrefix == Init /\ [][NextPrefix]_vars

\* the prefix of the engine key a call went to
PrefixUsed ==
    IF call.op = "put_token" THEN call.keys[1][1]
    ELSE IF call.op \in {"exists_token", "read_token"} THEN call.key[1]
    ELSE nullopt

\* C25: the asserts of put_token, read_token and exists_token accept a call
\* for a type other than token without a prefix, which then goes to the
\* canonical prefix of the type, and accept a call for the type token only
\* with a prefix.
C25_PrefixRule ==
    /\ call.op = "assert" => call.type = tt_token /\ call.domain = nullopt
    /\ PrefixUsed # PrefixOf(tt_token)


(***************************************************************************)
(* C26 (as claimed): rollback_to_latest_savepoint on a stack whose top is  *)
(* a runtime savepoint holding the legal puts issued since it was added    *)
(* removes exactly the top savepoint and leaves every lower savepoint as   *)
(* it was, leaves every key the top savepoint did not touch with its       *)
(* value, and gives every key it touched the value of the snapshot of the  *)
(* top savepoint.  Stated for a store whose token handle is set.           *)
(***************************************************************************)
C26_RollbackOnlyTop ==
    [][(/\ IsRollback(call')
        /\ savepoints_ # <<>>
        /\ tokens_handle_ # nullptr
        /\ WellRecorded(Back(savepoints_), db_))
          => LET top == Back(savepoints_).group
             IN  /\ savepoints_' = PopBack(savepoints_)
                 /\ \A cf \in {TokensCF, AssetsCF}, k \in KeyUniverse :
                       Get(db_', cf, k) =
                           IF Touched(top.actions, cf, k)
                           THEN Get(top.rb_snapshot, cf, k)
                           ELSE Get(db_, cf, k)]_vars


(***************************************************************************)
(* The store with puts that carry the op delete, rolled back in runtime    *)
(* form and, after a persist and a load, in persistent form.               *)
(***************************************************************************)
DeleteOps == {op_put, op_delete}

DeletePut ==
    \E op \in DeleteOps, key \in PutNames, data \in PersistValues :
        put_token(tt_domain, op, PrefixOf(tt_domain), key, data, TRUE)

NextDelete ==
    \/ open(FALSE) /\ UNCHANGED idle
    \/ close(FALSE, TRUE) /\ UNCHANGED idle
    \/ DeletePut /\ UNCHANGED idle
    \/ \E seq \in 1..MaxSeq : add_savepoint(seq) /\ UNCHANGED idle
    \/ rollback_to_latest_savepoint /\ UNCHANGED idle
    \/ pop_back_savepoint /\ UNCHANGED idle
    \/ persist_savepoints_stream(TRUE) /\ UNCHANGED idle
    \/ load_savepoints_stream /\ UNCHANGED idle

SpecDelete == Init /\ [][NextDelete]_vars

\* the savepoint holds an action recorded with the op delete
HoldsDelete(sp) ==
    \E j \in 1..Len(sp.group.actions) :
        IF sp.type = kRuntime THEN RecordedOp(sp.group.actions[j]) = op_delete
                              ELSE sp.group.actions[j].op = op_delete

\* the pre-image of a key of the token column family
PreImage(snap, key) == IF Get(snap, TokensCF, key) = NotFound THEN "" ELSE Get(snap, TokensCF, key)

(***************************************************************************)
(* C27 (as claimed): an action recorded with the op delete is reversible.  *)
(* A rollback of a savepoint (runtime or persistent form) that holds one   *)
(* completes, and in runtime form leaves the key with the value of the     *)
(* snapshot of the savepoint; a persist stores for every delete action of  *)
(* a runtime savepoint the value the key has in that snapshot.             *)
(***************************************************************************)
C27_DeleteReversible ==
    [][/\ (/\ IsRollback(call')
           /\ savepoints_ # <<>>
           /\ tokens_handle_ # nullptr
           /\ HoldsDelete(Back(savepoints_)))
             => /\ err' = OK
                /\ fault' = NoFault
                /\ savepoints_' = PopBack(savepoints_)
                /\ Back(savepoints_).type = kRuntime =>
                      \A j \in 1..Len(Back(savepoints_).group.actions) :
                          LET act == Back(savepoints_).group.actions[j]
                          IN  RecordedOp(act) = op_delete =>
                                 Get(db_', TokensCF, get_sp_key(act)) =
                                     Get(Back(savepoints_).group.rb_snapshot,
                                         TokensCF, get_sp_key(act))
       /\ (call'.op = "persist_savepoints" /\ err' = OK /\ fault' = NoFault)
             => \A i \in 1..Len(savepoints_) :
                    savepoints_[i].type = kRuntime =>
                       \A j \in 1..Len(savepoints_[i].group.actions) :
                           LET act == savepoints_[i].group.actions[j]
                           IN  RecordedOp(act) = op_delete =>
                                  /\ stream'.pds[i].actions[j].op = op_delete
                                  /\ stream'.pds[i].actions[j].value =
                                        PreImage(savepoints_[i].group.rb_snapshot,
                                                 get_sp_key(act))]_vars


(***************************************************************************)
(* C28 (as claimed): pop_savepoints(until) frees the savepoints below      *)
(* until from the newest to the oldest: of two savepoints it frees, the    *)
(* one with the higher seq is freed first.                                 *)
(***************************************************************************)
C28_PopNewestFirst ==
    [][call'.op = "pop_savepoints"
          => \A i, j \in 1..Len(call'.freed) :
                i < j => call'.freed[i] > call'.freed[j]]_vars


\* the value the key has in the snapshot, empty when the snapshot lacks it
OldValue(snap, cf, key) ==
    IF Get(snap, cf, key) = NotFound THEN "" ELSE Get(snap, cf, key)

\* the persistent actions the description asks for one recorded action:
\* one per engine key, each with the op and the type recorded and with the
\* pre-image of the key
PreImagesOf(act, snap) ==
    [i \in 1..Len(ActionKeys(act)) |->
        pd_action(RecordedOp(act), get_token_type(act), ActionKeys(act)[i],
                  IF RecordedOp(act) = op_add THEN ""
                  ELSE OldValue(snap, ActionCF(act), ActionKeys(act)[i]))]

RECURSIVE PreImages(_, _)
PreImages(actions, snap) ==
    IF actions = <<>> THEN <<>>
    ELSE PreImagesOf(Head(actions), snap) \o PreImages(Tail(actions), snap)

(***************************************************************************)
(* C29 (as claimed): a persist_savepoints that completes writes, for every *)
(* runtime savepoint, one persistent action per recorded engine key, in    *)
(* the recorded order, with the op, the type and the engine key recorded   *)
(* and with the value the key has in the snapshot of that savepoint (empty *)
(* for add, and for put when the snapshot lacks the key), repeated actions *)
(* on one key and keys recorded through put_tokens included.               *)
(***************************************************************************)
C29_PersistPreImages ==
    [][(call'.op = "persist_savepoints" /\ err' = OK /\ fault' = NoFault)
          => /\ Len(stream'.pds) = Len(savepoints_)
             /\ \A i \in 1..Len(savepoints_) :
                   savepoints_[i].type = kRuntime =>
                      stream'.pds[i].actions =
                          PreImages(savepoints_[i].group.actions,
                                    savepoints_[i].group.rb_snapshot)]_vars


(***************************************************************************)
(* rt_action on its own: actions built from every token type, op, data     *)
(* kind and payload pointer and read back through the accessors.           *)
(***************************************************************************)
TokenTypes == {tt_asset, tt_domain, tt_token}
ActionOps == {op_add, op_update, op_put, op_delete}
DataTypes == {kTokenKey, kTokenFullKey, kAssetKey, kTokenKeys}
\* 48-bit pointers, as three 16-bit limbs, the low one first
Pointers == {<<0, 0, 0>>, <<4096, 21845, 0>>, <<65535, 65535, 32767>>}

rt_action_call(token_type, op, data_type, p) ==
    /\ call' = [op |-> "rt_action", token_type |-> token_type, action_op |-> op,
                data_type |-> data_type, p |-> p,
                act |-> rt_action(token_type, op, data_type, p)]
    /\ UNCHANGED <<db_, opened, dir_exists, tokens_handle_, savepoints_,
                   live_snapshots, stream, file, puts, err, fault>>

NextAction ==
    \E token_type \in TokenTypes, op \in ActionOps, data_type \in DataTypes, p \in Pointers :
        rt_action_call(token_type, op, data_type, p) /\ UNCHANGED idle

SpecAction == Init /\ [][NextAction]_vars

(***************************************************************************)
(* C30 (as claimed): an rt_action built from a token type, an op, a data   *)
(* kind and a 48-bit payload pointer returns that token type from          *)
(* get_token_type, that op from get_action_op, that data kind from         *)
(* get_data_type and that pointer from GETPOINTER.                         *)
(***************************************************************************)
C30_ActionRoundTrip ==
    call.op = "rt_action"
        => /\ get_token_type(call.act) = call.token_type
           /\ get_action_op(call.act) = call.action_op
           /\ get_data_type(call.act) = call.data_type
           /\ GETPOINTER(call.act) = call.p


(***************************************************************************)
(* The layout of a struct: the fields in the order DeclaredFields gives,   *)
(* each written and read by the conversion of its own type.                *)
(***************************************************************************)
RECURSIVE LayoutBytes(_, _, _, _)
LayoutBytes(tds, sts, fields, vo) ==
    IF fields = <<>> THEN <<>>
    ELSE variant_to_binary_ds(tds, sts, Head(fields).type,
                              field_of(vo, Head(fields).name)).bytes
         \o LayoutBytes(tds, sts, Tail(fields), vo)

\* the entries read field after field from the stream, each from the byte
\* at which the one before it ended
RECURSIVE LayoutEntries(_, _, _, _)
LayoutEntries(tds, sts, fields, stream_) ==
    IF fields = <<>> THEN <<>>
    ELSE LET h == binary_to_variant_ds(tds, sts, Head(fields).type, stream_)
         IN  <<entry(Head(fields).name, h.var)>>
             \o LayoutEntries(tds, sts, Tail(fields), h.rest)

\* the last call encoded an object for a struct type and returned bytes
EncodedStruct ==
    /\ ser.op = "variant_to_binary"
    /\ ser.err = OK
    /\ ser.fault = NoFault
    /\ is_type(typedefs, structs, ser.type).ret
    /\ is_struct(typedefs, structs, ser.type).ret
    /\ is_object(ser.var)

DecoratedTypes == {Array(T("P")), Optional(T("P")), Array(T("U")), Optional(T("U")),
                   Array(T("Q")), Optional(T("Q"))}

NextDecorated ==
    \/ \E abi \in {AbiCodec, AbiEmpty} : set_abi_call(abi) /\ UNCHANGED database
    \/ \E type \in DecoratedTypes :
          \E var \in Admissible(typedefs, structs, type, MaxDepth) :
              variant_to_binary_type_call(type, var) /\ UNCHANGED database
    \/ binary_to_variant_call /\ UNCHANGED database

SpecDecorated == Init /\ [][NextDecorated]_vars

\* the bytes of the elements of an array, one after the other
RECURSIVE ElementBytes(_, _, _, _)
ElementBytes(tds, sts, type, vars_) ==
    IF vars_ = <<>> THEN <<>>
    ELSE variant_to_binary_ds(tds, sts, type, Head(vars_)).bytes
         \o ElementBytes(tds, sts, type, Tail(vars_))

\* the layout of a value of a decorated type: the count and the elements,
\* or the flag byte and the payload of a value that is set
DecoratedLayout(tds, sts, type, var) ==
    IF is_array(type)
    THEN pack_size(Len(var.v)) \o ElementBytes(tds, sts, fundamental_type(type), var.v)
    ELSE IF is_null(var) THEN <<0>>
    ELSE <<1>> \o variant_to_binary_ds(tds, sts, fundamental_type(type), var).bytes

(***************************************************************************)
(* C32 (as claimed): for a struct or typedef type T, variant_to_binary of  *)
(* T[] writes the count followed by the encoding of each element, and of   *)
(* T? one flag byte followed by the payload when the value is set (flag 0  *)
(* alone when it is not); binary_to_variant reads exactly these bytes back *)
(* as the value.                                                           *)
(***************************************************************************)
C32_DecoratedLayout ==
    (/\ ser.op = "variant_to_binary"
     /\ ser.type \in DecoratedTypes
     /\ is_type(typedefs, structs, ser.type).ret)
        => LET layout == DecoratedLayout(typedefs, structs, ser.type, ser.var)
               d == binary_to_variant(typedefs, structs, ser.type, layout)
           IN  /\ ser.err = OK
               /\ ser.fault = NoFault
               /\ ser.bytes = layout
               /\ d.err = OK /\ d.fault = NoFault
               /\ d.var = ser.var
               /\ d.rest = <<>>


(***************************************************************************)
(* read_assets_range.  The iterator of the asset column family is opened   *)
(* with prefix_same_as_start over a prefix extractor of kPublicKeySize     *)
(* bytes, and is sought with the bytes of the symbol alone, which are      *)
(* fewer.  The loop has no test of its own on the key: what it visits is   *)
(* what the engine's iterator stays valid for.  For a target shorter than  *)
(* the prefix length the engine either applies no prefix bound, or bounds  *)
(* the scan by the prefix of the key the seek lands on.                    *)
(***************************************************************************)
\* the asset keys in the order of their bytes
AssetKeyOrder ==
    <<db_asset_key("addr1", "S1"), db_asset_key("addr2", "S1"), db_asset_key("bddr1", "S1"),
      db_asset_key("addr1", "S2"), db_asset_key("addr2", "S2"), db_asset_key("bddr1", "S2")>>

\* the first kPublicKeySize bytes of an asset key: the symbol and the
\* leading bytes of the address
AssetPrefix(key) == <<key[1], IF key[2] = "bddr1" THEN "bddr" ELSE "addr">>

\* the records of the column family from the seek position on, ascending
SeekFrom(db, sym) ==
    SelectSeq(AssetKeyOrder,
              LAMBDA k : Get(db, AssetsCF, k) # NotFound /\ (sym = "S1" \/ k[1] = "S2"))

\* the keys the iterator is valid for, one after the other
IteratorRuns(db, sym) ==
    LET from == SeekFrom(db, sym)
    IN  {from} \cup
        (IF from = <<>> THEN {}
         ELSE {SelectSeq(from, LAMBDA k : AssetPrefix(k) = AssetPrefix(from[1]))})

\* func returns false at its stop-th invocation (0: never)
read_assets_range(run, skip, stop) ==
    LET rest == SubSeq(run, skip + 1, Len(run))
        seen == IF stop > 0 /\ stop < Len(rest) THEN SubSeq(rest, 1, stop) ELSE rest
    IN  [visited |-> seen, count |-> Len(seen)]

read_assets_range_call(sym, skip, stop) ==
    /\ Running
    /\ \E run \in IteratorRuns(db_, sym) :
          LET r == read_assets_range(run, skip, stop)
          IN  call' = [op |-> "read_assets_range", sym |-> sym, skip |-> skip,
                       stop |-> stop, visited |-> r.visited, count |-> r.count]
    /\ err' = OK
    /\ UNCHANGED <<db_, opened, dir_exists, tokens_handle_, savepoints_,
                   live_snapshots, stream, file, puts, fault>>

RangePut ==
    \E addr \in RangeAddrs, sym \in RangeSyms :
        put_asset(addr, sym, "x", TRUE)

NextRange ==
    \/ open(FALSE) /\ UNCHANGED idle
    \/ close(FALSE, TRUE) /\ UNCHANGED idle
    \/ RangePut /\ UNCHANGED idle
    \/ \E sym \in RangeSyms, skip \in 0..1, stop \in 0..1 :
          read_assets_range_call(sym, skip, stop) /\ UNCHANGED idle

SpecRange == Init /\ [][NextRange]_vars

\* the holdings of the symbol, in the order of their addresses
HoldingsOf(db, sym) ==
    SelectSeq(AssetKeyOrder, LAMBDA k : Get(db, AssetsCF, k) # NotFound /\ k[1] = sym)

(***************************************************************************)
(* C33 (as claimed): read_assets_range(sym, skip, func) hands func the     *)
(* holdings of the symbol sym and no other record: every one of them       *)
(* after the first skip, in ascending order of the address, up to the one  *)
(* for which func returns false; it returns the number of calls of func.   *)
(***************************************************************************)
C33_AssetsRange ==
    call.op = "read_assets_range"
        => LET r == read_assets_range(HoldingsOf(db_, call.sym), call.skip, call.stop)
           IN  /\ call.visited = r.visited
               /\ call.count = r.count
               /\ \A i \in 1..Len(call.visited) : call.visited[i][1] = call.sym


(***************************************************************************)
(* Puts on two keys under savepoints that are then squashed.               *)
(***************************************************************************)
MergePut ==
    \E key \in Names :
        put_token(tt_domain, op_put, PrefixOf(tt_domain), key, "x", TRUE)

NextMerge ==
    \/ open(FALSE) /\ UNCHANGED idle
    \/ MergePut /\ UNCHANGED idle
    \/ \E seq \in 1..MaxSeq : add_savepoint(seq) /\ UNCHANGED idle
    \/ squash /\ UNCHANGED idle

SpecMerge == Init /\ [][NextMerge]_vars

C35_FailedSquashNoEffect ==
    [][(call'.op = "squash" /\ err' # OK)
          => /\ savepoints_' = savepoints_
             /\ db_' = db_
             /\ live_snapshots' = live_snapshots
             /\ (live_snapshots = Released(savepoints_)
                    => live_snapshots' = Released(savepoints_'))]_vars


(***************************************************************************)
(* C36 (as claimed): whenever a put records its mutation, the savepoint on *)
(* top of the stack is a runtime savepoint, so the assert of record()      *)
(* holds and no put ends in a fault, a put issued right after              *)
(* load_savepoints included.                                               *)
(***************************************************************************)
C36_RecordOnRuntimeTop ==
    [][(IsPut(call') /\ call'.written > 0 /\ should_record(savepoints_))
          => /\ IsRuntime(Back(savepoints_))
             /\ fault' = NoFault]_vars


\* C37: persist_savepoints leaves the memory of the store as it was: the same
\* savepoints with their seqs, forms, snapshots and actions, the same engine
\* contents and the same snapshots held, so that a rollback issued after it
\* does what it would have done without it.
C37_PersistKeepsMemory ==
    [][(call'.op = "persist_savepoints" /\ fault' = NoFault)
          => /\ savepoints_' = savepoints_
             /\ db_' = db_
             /\ live_snapshots' = live_snapshots
             /\ rollback_top(db_', savepoints_', assets_handle_, tokens_handle_')
                    = rollback_top(db_, savepoints_, assets_handle_, tokens_handle_)]_vars

\* a persist has written a runtime savepoint that holds an action, and the
\* savepoint is still on the stack in runtime form
C37_Witness ==
    /\ call.op = "persist_savepoints"
    /\ err = OK
    /\ fault = NoFault
    /\ savepoints_ # <<>>
    /\ IsRuntime(Back(savepoints_))
    /\ Back(savepoints_).group.actions # <<>>
    /\ stream.h.dirty_flag = 0
    /\ Len(stream.pds) = Len(savepoints_)


(***************************************************************************)
(* C38 (as claimed): the savepoints an open with load_persistence loads    *)
(* are those of the most recent close: the stack it persisted, and none    *)
(* when it did not persist.  The file is only written by close, so what    *)
(* the next open loads is decided at the close: no savepoint of an older   *)
(* file comes back.                                                        *)
(***************************************************************************)
Closes == call'.op = "close" /\ opened /\ ~opened'

KeptByClose == IF call'.persist THEN Seqs(savepoints_) ELSE <<>>

C38_LoadsLastClosedStack ==
    [][Closes => LET r == load_savepoints_file(<<>>, file')
                 IN  r.err = OK => Seqs(r.savepoints) = KeptByClose]_vars


(***************************************************************************)
(* Puts through the public calls under a savepoint, for every data kind.   *)
(***************************************************************************)
token_database_put_tokens(type, op, domain, keys, data) ==
    \/ assert_fails("put_tokens", type, domain)
    \/ put_tokens(type, op, PrefixFor(type, domain), keys, data, 0)

NextKey ==
    \/ open(FALSE) /\ UNCHANGED idle
    \/ \E seq \in 1..MaxSeq : add_savepoint(seq) /\ UNCHANGED idle
    \/ \E type \in RecordTypes, domain \in OptionalDomains, key \in Names :
          token_database_put_token(type, op_put, domain, key, "x") /\ UNCHANGED idle
    \/ \E type \in ListTypes, domain \in OptionalDomains, keys \in KeyLists :
          /\ token_database_put_tokens(type, op_put, domain, keys,
                                       [i \in 1..Len(keys) |-> "x"])
          /\ UNCHANGED idle
    \/ \E addr \in Addrs, sym \in Syms : put_asset(addr, sym, "x", TRUE) /\ UNCHANGED idle

SpecKey == Init /\ [][NextKey]_vars

\* the action a put has just appended to the top savepoint
Recorded(sps) == Back(sps).group.actions[Len(Back(sps).group.actions)]

(***************************************************************************)
(* C39 (as claimed): the engine keys that rollback and persist rebuild     *)
(* from the action a put has recorded are the engine keys the put wrote,   *)
(* and the column family rollback writes to is the one the put wrote to.   *)
(***************************************************************************)
C39_RecordedKeyFidelity ==
    [][(IsPut(call') /\ call'.written > 0 /\ should_record(savepoints_)
           /\ fault' = NoFault)
          => /\ Len(Back(savepoints_').group.actions) = Len(Back(savepoints_).group.actions) + 1
             /\ ActionKeys(Recorded(savepoints_')) = call'.keys
             /\ ActionCF(Recorded(savepoints_')) = call'.cf]_vars


(***************************************************************************)
(* C40 (as claimed): after a successful open both column family handles    *)
(* are set, whether the directory existed or was created by the call, so   *)
(* that the rollback and the persist of a put on a token record address    *)
(* the token column family through a valid handle.                         *)
(***************************************************************************)
C40_HandlesSet ==
    opened => /\ tokens_handle_ # nullptr
              /\ assets_handle_ # nullptr

====
